---------------------------- MODULE Spec2Model ----------------------------
(***************************************************************************)
(* Exam-attendance authentication backend (app/main.py, app/models.py).    *)
(*                                                                         *)
(* The tables of app/models.py are sequences of rows in insertion order;   *)
(* an autoincrement primary key is the row's position.  Query.first() of a *)
(* query without ORDER BY is the first matching row in that order.         *)
(* Timestamps are integers; a nullable column holds None or Some(v).       *)
(***************************************************************************)
EXTENDS Integers, Sequences, FiniteSets, TLC

VARIABLES
    now,          \* the clock read by datetime.utcnow()
    sessions,     \* table exam_sessions
    students,     \* table students
    courseLists,  \* table course_lists
    attendance,   \* table attendance
    errorLogs,    \* table error_logs
    last,         \* the last request served and the response it got
    issued,       \* issued[i]: the body returned by the call that inserted attendance[i]
    reqs          \* requests in flight (concurrent specifications only)

vars == <<now, sessions, students, courseLists, attendance, errorLogs, last, issued, reqs>>

---------------------------------------------------------------------------
(* Bounds of the model *)

MaxTime == 3        \* the clock runs from 0 to MaxTime
MaxEndpoint == 1    \* start_time and end_time of a request are in 0..MaxEndpoint
MaxSessions == 2    \* rows of exam_sessions
MaxErrorLogs == 2   \* rows of error_logs
MaxAttendance == 3  \* rows of attendance
MaxCourseLists == 2 \* rows of course_lists added by uploads
MaxStudents == 2    \* rows of students added by enrollments
MaxMinutes == 61     \* the clock of the token specification, in minutes

Times == 0..MaxEndpoint

---------------------------------------------------------------------------
(* Nullable values *)

None == <<>>
Some(v) == <<v>>

---------------------------------------------------------------------------
(* Reference data: created out of band, never changed by the service *)

Departments == {1, 2}

\* table admins: admin_id, department_id
Admins ==
    { [admin_id |-> 1, username |-> "admin1", department_id |-> 1],
      [admin_id |-> 2, username |-> "admin2", department_id |-> 1],
      [admin_id |-> 3, username |-> "admin3", department_id |-> 2] }

\* table courses: course_code is unique
Courses ==
    { [course_id |-> 1, course_code |-> "CSC101", course_name |-> "Programming",
       department_id |-> 1],
      [course_id |-> 2, course_code |-> "MTH201", course_name |-> "Algebra",
       department_id |-> 2] }

\* course codes a request may carry: those of the table and an unknown one
CourseCodes == {c.course_code : c \in Courses} \cup {"XXX000"}

\* fingerprint templates a device may present
Templates == {"F1", "F2", "FX"}

\* rows of table students, as enroll_student stores them: the handler does not
\* pass the request's photo to Student(...), so the column stays null
StudentRow(m, n, d, l, f) ==
    [matriculation_number |-> m, name |-> n, department_id |-> d,
     level_id |-> l, photo |-> None, fingerprint_template |-> f]

\* rows of table course_lists, as upload_course_list stores them
CourseListRow(c, m, mark) ==
    [course_id |-> c, matriculation_number |-> m, ca_mark |-> mark]

\* CA marks of the enrollment under test
CaMarks == {None, Some(-1), Some(0), Some(1)}

---------------------------------------------------------------------------
(* Queries *)

\* Query.first(): the first of the rows of table t at the positions hits, or None
First(t, hits) ==
    IF hits = {} THEN None
    ELSE Some(t[CHOOSE i \in hits : \A j \in hits : i <= j])

\* db.query(Course).filter(Course.course_code == code).first()
CourseByCode(code) ==
    IF \E c \in Courses : c.course_code = code
    THEN Some(CHOOSE c \in Courses : c.course_code = code)
    ELSE None

\* db.query(ExamSession).filter(ExamSession.session_id == sid).first()
SessionById(sid) ==
    First(sessions, {i \in 1..Len(sessions) : sessions[i].session_id = sid})

\* db.query(Student).filter(Student.fingerprint_template == tpl).first()
StudentByTemplate(tpl) ==
    First(students, {i \in 1..Len(students) : students[i].fingerprint_template = tpl})

\* db.query(CourseList).filter(course_id == c, matriculation_number == m).first()
CourseListOf(c, m) ==
    First(courseLists, {i \in 1..Len(courseLists) :
                           /\ courseLists[i].course_id = c
                           /\ courseLists[i].matriculation_number = m})

\* db.query(Attendance).filter(session_id == sid, matriculation_number == m).first()
AttendanceOf(sid, m) ==
    First(attendance, {i \in 1..Len(attendance) :
                          /\ attendance[i].session_id = sid
                          /\ attendance[i].matriculation_number = m})

---------------------------------------------------------------------------
(* Responses *)

\* raise HTTPException(status_code=code, detail=detail) inside a handler's try
HTTPException(code, detail) == [status_code |-> code, detail |-> detail]

\* The status the caller receives: 200 when the handler returns; the handler's
\* "except Exception" re-raises whatever was raised as HTTPException(400)
SurfacedStatus(error) == IF error = None THEN 200 ELSE 400

NoRequest ==
    [op |-> "none", req |-> None, status |-> 200, error |-> None, body |-> None]

\* A request served: the handler, the request body (the pydantic model), the
\* exception raised inside the handler, the surfaced status and the body returned
Response(op, req, error, body) ==
    [op |-> op, req |-> req, status |-> SurfacedStatus(error),
     error |-> error, body |-> body]

---------------------------------------------------------------------------
(* create_session *)

\* (mutant) the overlap test with strict comparisons: touching intervals pass
OverlappingStrict(s, course_id, start_time, end_time) ==
    /\ s.course_id = course_id
    /\ s.start_time < end_time
    /\ s.end_time > start_time

\* the filter of the overlap query
Overlapping(s, course_id, start_time, end_time) ==
    /\ s.course_id = course_id
    /\ s.start_time <= end_time
    /\ s.end_time >= start_time

\* db.query(ExamSession).filter(<the overlap filter>).first()
OverlappingSession(course_id, start_time, end_time) ==
    First(sessions, {i \in 1..Len(sessions) :
                        Overlapping(sessions[i], course_id, start_time, end_time)})

\* ExamSession(course_id=..., admin_id=..., start_time=..., end_time=...)
NewSession(course, adm, start_time, end_time) ==
    [session_id |-> Len(sessions) + 1, course_id |-> course.course_id,
     admin_id |-> adm.admin_id, start_time |-> start_time, end_time |-> end_time]

\* (mutant) create_session without the department check
CreateSessionOutcomeAnyDepartment(adm, code, start_time, end_time) ==
    LET course == CourseByCode(code) IN
    IF course = None
    THEN [error |-> Some(HTTPException(404, "Course not found")), row |-> None]
    ELSE IF OverlappingSession(course[1].course_id, start_time, end_time) # None
    THEN [error |-> Some(HTTPException(400,
              "Session overlaps with existing session for this course")),
          row |-> None]
    ELSE [error |-> None,
          row |-> Some(NewSession(course[1], adm, start_time, end_time))]

\* The checks of create_session up to the overlap query: the exception raised
\* (None when the request passes) and the row to insert
CreateSessionOutcome(adm, code, start_time, end_time) ==
    LET course == CourseByCode(code) IN
    IF course = None
    THEN [error |-> Some(HTTPException(404, "Course not found")), row |-> None]
    ELSE IF course[1].department_id # adm.department_id
    THEN [error |-> Some(HTTPException(403, "Not authorized for this department")),
          row |-> None]
    ELSE IF OverlappingSession(course[1].course_id, start_time, end_time) # None
    THEN [error |-> Some(HTTPException(400,
              "Session overlaps with existing session for this course")),
          row |-> None]
    ELSE [error |-> None,
          row |-> Some(NewSession(course[1], adm, start_time, end_time))]

CreateSessionRequest(code, start_time, end_time) ==
    Some([course_code |-> code, start_time |-> start_time, end_time |-> end_time])

CreateSessionBody(row) ==
    Some([message |-> "Session created successfully", session_id |-> row.session_id])

\* POST /session/ served as one unit of work
CreateSession(adm, code, start_time, end_time) ==
    LET o == CreateSessionOutcome(adm, code, start_time, end_time)
        req == CreateSessionRequest(code, start_time, end_time)
    IN  /\ IF o.error # None
           THEN /\ sessions' = sessions
                /\ last' = Response("create_session", req, o.error, None)
           ELSE /\ Len(sessions) < MaxSessions
                /\ sessions' = Append(sessions, o.row[1])
                /\ last' = Response("create_session", req, None,
                                    CreateSessionBody(o.row[1]))
        /\ UNCHANGED <<now, students, courseLists, attendance, errorLogs, issued, reqs>>

---------------------------------------------------------------------------
(* authenticate_student *)

\* (mutant) the window check without its upper bound
OutsideWindowStartOnly(t, session) == t < session.start_time

\* (mutant) the window check rejecting an attempt made at start_time or end_time
OutsideWindowExclusive(t, session) == t <= session.start_time \/ t >= session.end_time

\* now < session.start_time or now > session.end_time
OutsideWindow(t, session) == t < session.start_time \/ t > session.end_time

\* (mutant) the CA-mark check rejecting a mark of 0
InvalidCaMarkZero(mark) == mark = None \/ mark[1] <= 0

\* (mutant) the CA-mark check rejecting a missing mark only
InvalidCaMarkNullOnly(mark) == mark = None

\* course_list.ca_mark is None or course_list.ca_mark < 0
InvalidCaMark(mark) == mark = None \/ mark[1] < 0

\* (mutant) the existing-attendance check never finding the student authenticated
AlreadyAuthenticatedNever(existing) == FALSE

\* existing_attendance and existing_attendance.authenticated
AlreadyAuthenticated(existing) == existing # None /\ existing[1].authenticated

\* ErrorLog(session_id=..., matriculation_number=..., error_type=..., details=...)
\* (the timestamp column, read by nothing but the error report's output, is left out)
NewErrorLog(sid, matric, error_type, details) ==
    [id |-> Len(errorLogs) + 1, session_id |-> sid, matriculation_number |-> matric,
     error_type |-> error_type, details |-> details]

\* (mutant) the Attendance row stored with authenticated left false
NewAttendanceUnauthenticated(sid, matric) ==
    [session_id |-> sid, matriculation_number |-> matric,
     authenticated |-> FALSE, timestamp |-> now]

\* Attendance(session_id=..., matriculation_number=..., authenticated=True)
NewAttendance(sid, matric) ==
    [session_id |-> sid, matriculation_number |-> matric,
     authenticated |-> TRUE, timestamp |-> now]

\* An outcome of the handler: the exception raised, the ErrorLog row and the
\* Attendance row it adds, and the body it returns
Outcome(error, log, att, body) ==
    [error |-> error, log |-> log, att |-> att, body |-> body]

AuthBody(message, student, course_list) ==
    Some([message |-> message,
          matriculation_number |-> student.matriculation_number,
          name |-> student.name,
          ca_mark |-> course_list.ca_mark])

\* (mutant) a fingerprint mismatch raised without journaling it
FingerprintMismatchUnlogged(sid) ==
    Outcome(Some(HTTPException(404, "Student not found")), None, None, None)

\* no student matched the template
FingerprintMismatch(sid) ==
    Outcome(Some(HTTPException(404, "Student not found")),
            Some(NewErrorLog(sid, None, "AUTH_FAILED",
                             <<"No student matched the provided fingerprint">>)),
            None, None)

\* (mutant) non-enrollment journaled without the student's matriculation number
NotEnrolledAnonymous(sid, session, student) ==
    Outcome(Some(HTTPException(403, "Student not enrolled in this course")),
            Some(NewErrorLog(sid, None, "NOT_ENROLLED",
                             <<"Student not enrolled in course", session.course_id>>)),
            None, None)

\* the matched student has no course_lists row for the session's course
NotEnrolled(sid, session, student) ==
    Outcome(Some(HTTPException(403, "Student not enrolled in this course")),
            Some(NewErrorLog(sid, Some(student.matriculation_number), "NOT_ENROLLED",
                             <<"Student not enrolled in course", session.course_id>>)),
            None, None)

\* the enrollment's CA mark is missing or negative
InvalidCa(sid, student, course_list) ==
    Outcome(Some(HTTPException(403, "Invalid CA mark")),
            Some(NewErrorLog(sid, Some(student.matriculation_number), "INVALID_CA_MARK",
                             <<"Invalid CA mark", course_list.ca_mark>>)),
            None, None)

\* (mutant) the already-authenticated body without the CA mark
AlreadyDoneNoMark(student, course_list) ==
    Outcome(None, None, None,
            Some([message |-> "Student already authenticated",
                  matriculation_number |-> student.matriculation_number,
                  name |-> student.name,
                  ca_mark |-> None]))

\* an authenticated Attendance row exists already
AlreadyDone(student, course_list) ==
    Outcome(None, None, None,
            AuthBody("Student already authenticated", student, course_list))

\* (mutant) the success journaled as well as recorded
RecordAttendanceJournaled(sid, student, course_list) ==
    Outcome(None,
            Some(NewErrorLog(sid, Some(student.matriculation_number), "AUTH_FAILED",
                             <<"Student authenticated">>)),
            Some(NewAttendance(sid, student.matriculation_number)),
            AuthBody("Student authenticated successfully", student, course_list))

\* record attendance
RecordAttendance(sid, student, course_list) ==
    Outcome(None, None, Some(NewAttendance(sid, student.matriculation_number)),
            AuthBody("Student authenticated successfully", student, course_list))

\* the checks after the fingerprint match: enrollment, CA mark, attendance
AuthEnrolled(sid, session, student) ==
    LET course_list == CourseListOf(session.course_id, student.matriculation_number) IN
    IF course_list = None
    THEN NotEnrolled(sid, session, student)
    ELSE IF InvalidCaMark(course_list[1].ca_mark)
    THEN InvalidCa(sid, student, course_list[1])
    ELSE IF AlreadyAuthenticated(AttendanceOf(sid, student.matriculation_number))
    THEN AlreadyDone(student, course_list[1])
    ELSE RecordAttendance(sid, student, course_list[1])

\* the checks after the time window: fingerprint match and what follows it
AuthIdentified(sid, session, tpl) ==
    LET student == StudentByTemplate(tpl) IN
    IF student = None
    THEN FingerprintMismatch(sid)
    ELSE AuthEnrolled(sid, session, student[1])

\* (mutant) the fingerprint match made before the time-window check
AuthOutcomeFingerprintFirst(adm, sid, tpl) ==
    LET session == SessionById(sid) IN
    IF session = None
    THEN Outcome(Some(HTTPException(404, "Session not found")), None, None, None)
    ELSE IF session[1].admin_id # adm.admin_id
    THEN Outcome(Some(HTTPException(403, "Not authorized for this session")),
                 None, None, None)
    ELSE IF StudentByTemplate(tpl) = None
    THEN FingerprintMismatch(sid)
    ELSE IF OutsideWindow(now, session[1])
    THEN Outcome(Some(HTTPException(403, "Authentication outside session time window")),
                 None, None, None)
    ELSE AuthIdentified(sid, session[1], tpl)

\* (mutant) a request by an admin who does not own the session journaled
AuthOutcomeOwnerJournaled(adm, sid, tpl) ==
    LET session == SessionById(sid) IN
    IF session = None
    THEN Outcome(Some(HTTPException(404, "Session not found")), None, None, None)
    ELSE IF session[1].admin_id # adm.admin_id
    THEN Outcome(Some(HTTPException(403, "Not authorized for this session")),
                 Some(NewErrorLog(sid, None, "AUTH_FAILED",
                                  <<"Not authorized for this session">>)),
                 None, None)
    ELSE IF OutsideWindow(now, session[1])
    THEN Outcome(Some(HTTPException(403, "Authentication outside session time window")),
                 None, None, None)
    ELSE AuthIdentified(sid, session[1], tpl)

\* The handler's checks in the order of the code: session, owner, time window,
\* then the checks that need the student
AuthOutcome(adm, sid, tpl) ==
    LET session == SessionById(sid) IN
    IF session = None
    THEN Outcome(Some(HTTPException(404, "Session not found")), None, None, None)
    ELSE IF session[1].admin_id # adm.admin_id
    THEN Outcome(Some(HTTPException(403, "Not authorized for this session")),
                 None, None, None)
    ELSE IF OutsideWindow(now, session[1])
    THEN Outcome(Some(HTTPException(403, "Authentication outside session time window")),
                 None, None, None)
    ELSE AuthIdentified(sid, session[1], tpl)

AuthRequest(sid, tpl) == Some([session_id |-> sid, fingerprint_template |-> tpl])

\* the rows of an outcome
Rows(o) == [log |-> o.log, att |-> o.att]

NoRows == [log |-> None, att |-> None]

\* (mutant) the exception raised before db.commit(): the journal row is added to
\* the Session and still pending when the except clause runs
UnitOfWorkRaiseBeforeCommit(o) ==
    IF o.error # None
    THEN [committed |-> NoRows, pending |-> Rows(o)]
    ELSE [committed |-> Rows(o), pending |-> NoRows]

\* The Session's unit of work when the handler leaves its try block: each
\* db.add(row) is followed by db.commit() before the raise or the return, so
\* the rows of the outcome are committed and no row is pending
UnitOfWork(o) == [committed |-> Rows(o), pending |-> NoRows]

\* db.rollback() in the except clause: the pending rows are dropped, the
\* committed ones stay
Rollback(u) == [u EXCEPT !.pending = NoRows]

\* the rows in storage once the request is over: the except clause rolls back
\* after an exception, and get_db closes the Session in any case
Stored(o) ==
    IF o.error # None THEN Rollback(UnitOfWork(o)).committed
    ELSE UnitOfWork(o).committed

\* (mutant) the journal kept to its latest entry: a new row replaces the table
CommitLatestOnly(o) ==
    LET rows == Stored(o) IN
    /\ rows.log # None => Len(errorLogs) < MaxErrorLogs
    /\ rows.att # None => Len(attendance) < MaxAttendance
    /\ errorLogs' = IF rows.log = None THEN errorLogs
                    ELSE <<[rows.log[1] EXCEPT !.id = 1]>>
    /\ attendance' = IF rows.att = None THEN attendance ELSE Append(attendance, rows.att[1])
    /\ issued' = IF rows.att = None THEN issued ELSE Append(issued, o.body[1])

\* the tables after the request
Commit(o) ==
    LET rows == Stored(o) IN
    /\ rows.log # None => Len(errorLogs) < MaxErrorLogs
    /\ rows.att # None => Len(attendance) < MaxAttendance
    /\ errorLogs' = IF rows.log = None THEN errorLogs ELSE Append(errorLogs, rows.log[1])
    /\ attendance' = IF rows.att = None THEN attendance ELSE Append(attendance, rows.att[1])
    /\ issued' = IF rows.att = None THEN issued ELSE Append(issued, o.body[1])

\* POST /attendance/authenticate served as one unit of work
Authenticate(adm, sid, tpl) ==
    LET o == AuthOutcome(adm, sid, tpl) IN
    /\ Commit(o)
    /\ last' = Response("authenticate", AuthRequest(sid, tpl), o.error, o.body)
    /\ UNCHANGED <<now, sessions, students, courseLists, reqs>>

---------------------------------------------------------------------------
(* report_ca_mark_dispute *)

\* db.query(Student).filter(Student.matriculation_number == m).first()
StudentByMatric(m) ==
    First(students, {i \in 1..Len(students) : students[i].matriculation_number = m})

\* matriculation numbers a dispute may carry: those enrolled and an unknown one
MatriculationNumbers == {"M1", "M2", "MX"}

\* the free text of a dispute
DisputeDetails == {"mark disputed"}

DisputeRequest(sid, matric, course_id, details) ==
    Some([session_id |-> sid, matriculation_number |-> matric,
          course_id |-> course_id, details |-> details])

\* (mutant) a dispute that also stores an Attendance row for the student
DisputeOutcomeRecordsAttendance(sid, matric, course_id, details) ==
    LET session == SessionById(sid) IN
    IF session = None
    THEN Outcome(Some(HTTPException(404, "Session not found")), None, None, None)
    ELSE IF session[1].course_id # course_id
    THEN Outcome(Some(HTTPException(400, "Course does not match session")),
                 None, None, None)
    ELSE IF StudentByMatric(matric) = None
    THEN Outcome(Some(HTTPException(404, "Student not found")), None, None, None)
    ELSE Outcome(None,
                 Some(NewErrorLog(sid, Some(matric), "CA_MARK_ISSUE", <<details>>)),
                 Some(NewAttendance(sid, matric)),
                 Some([message |-> "CA mark dispute logged successfully"]))

\* (mutant) the dispute journaled without looking the student up
DisputeOutcomeAnyStudent(sid, matric, course_id, details) ==
    LET session == SessionById(sid) IN
    IF session = None
    THEN Outcome(Some(HTTPException(404, "Session not found")), None, None, None)
    ELSE IF session[1].course_id # course_id
    THEN Outcome(Some(HTTPException(400, "Course does not match session")),
                 None, None, None)
    ELSE Outcome(None,
                 Some(NewErrorLog(sid, Some(matric), "CA_MARK_ISSUE", <<details>>)),
                 None,
                 Some([message |-> "CA mark dispute logged successfully"]))

\* the handler's checks (session, course of the session, student) and the
\* CA_MARK_ISSUE row it journals when they pass
DisputeOutcome(sid, matric, course_id, details) ==
    LET session == SessionById(sid) IN
    IF session = None
    THEN Outcome(Some(HTTPException(404, "Session not found")), None, None, None)
    ELSE IF session[1].course_id # course_id
    THEN Outcome(Some(HTTPException(400, "Course does not match session")),
                 None, None, None)
    ELSE IF StudentByMatric(matric) = None
    THEN Outcome(Some(HTTPException(404, "Student not found")), None, None, None)
    ELSE Outcome(None,
                 Some(NewErrorLog(sid, Some(matric), "CA_MARK_ISSUE", <<details>>)),
                 None,
                 Some([message |-> "CA mark dispute logged successfully"]))

\* POST /attendance/dispute served as one unit of work
ReportCaMarkDispute(sid, matric, course_id, details) ==
    LET o == DisputeOutcome(sid, matric, course_id, details) IN
    /\ Commit(o)
    /\ last' = Response("dispute", DisputeRequest(sid, matric, course_id, details),
                        o.error, o.body)
    /\ UNCHANGED <<now, sessions, students, courseLists, reqs>>

---------------------------------------------------------------------------
(* upload_course_list and parse_course_list_csv *)

\* db.query(Course).filter(Course.course_id == course_id).first()
CourseById(course_id) ==
    IF \E c \in Courses : c.course_id = course_id
    THEN Some(CHOOSE c \in Courses : c.course_id = course_id)
    ELSE None

\* required_columns
RequiredColumns == {"matriculation_number", "name", "ca_mark"}

\* The DataFrame pd.read_csv makes of the uploaded file: its columns, and its
\* rows as records of cells, one cell per column
CsvFile(columns, rows) == [columns |-> columns, rows |-> rows]

CsvRow(matric, mark) == [matriculation_number |-> matric, name |-> "n", ca_mark |-> mark]

\* the texts float() accepts among the cells of the model, with their values
FloatOf == [cell \in {"-1", "0", "1", "2"} |->
               CASE cell = "-1" -> -1 [] cell = "0" -> 0 [] cell = "1" -> 1 [] cell = "2" -> 2]

\* (mutant) a cell that is no number stored as a mark of 0
CaMarkValueZeroDefault(cell) ==
    IF cell = "" THEN None
    ELSE IF cell \in DOMAIN FloatOf THEN Some(FloatOf[cell])
    ELSE Some(0)

\* float(ca_mark) if pd.notna(ca_mark) else None, and None on ValueError or
\* TypeError: an empty cell is read as NaN
CaMarkValue(cell) ==
    IF cell = "" THEN None
    ELSE IF cell \in DOMAIN FloatOf THEN Some(FloatOf[cell])
    ELSE None

\* (mutant) the rows of unknown students kept
KnownStudentAlways(matric) == TRUE

\* db.query(Student).filter(Student.matriculation_number == matric).first() finds a row
KnownStudent(matric) ==
    \E i \in 1..Len(students) : students[i].matriculation_number = matric

\* the loop of parse_course_list_csv over df.iterrows(): one dict per row of a
\* stored student, in the order of the file
RECURSIVE ParseRows(_, _)
ParseRows(rows, course_id) ==
    IF rows = <<>> THEN <<>>
    ELSE LET row == Head(rows)
             rest == ParseRows(Tail(rows), course_id)
         IN  IF KnownStudent(row.matriculation_number)
             THEN <<CourseListRow(course_id, row.matriculation_number,
                                  CaMarkValue(row.ca_mark))>> \o rest
             ELSE rest

\* (mutant) the column check not asking for the name column
MissingColumnsNameOptional(file) ==
    ~({"matriculation_number", "ca_mark"} \subseteq file.columns)

\* not all(col in df.columns for col in required_columns)
MissingColumns(file) == ~(RequiredColumns \subseteq file.columns)

\* the checks of upload_course_list and the rows it adds
UploadOutcome(adm, course_id, file) ==
    LET course == CourseById(course_id) IN
    IF course = None
    THEN [error |-> Some(HTTPException(404, "Course not found")), rows |-> <<>>]
    ELSE IF course[1].department_id # adm.department_id
    THEN [error |-> Some(HTTPException(403, "Not authorized for this department")),
          rows |-> <<>>]
    ELSE IF MissingColumns(file)
    THEN [error |-> Some(HTTPException(400, "CSV missing required columns")),
          rows |-> <<>>]
    ELSE [error |-> None, rows |-> ParseRows(file.rows, course_id)]

UploadRequest(course_id, file) == Some([course_id |-> course_id, file |-> file])

\* POST /course/upload served as one unit of work: every parsed row is added,
\* then one commit
UploadCourseList(adm, course_id, file) ==
    LET o == UploadOutcome(adm, course_id, file) IN
    /\ Len(courseLists) + Len(o.rows) <= MaxCourseLists
    /\ courseLists' = courseLists \o o.rows
    /\ last' = Response("upload_course_list", UploadRequest(course_id, file), o.error,
                        IF o.error = None
                        THEN Some([message |-> "Course list uploaded successfully"])
                        ELSE None)
    /\ UNCHANGED <<now, sessions, students, attendance, errorLogs, issued, reqs>>

---------------------------------------------------------------------------
(* get_attendance_report *)

\* one line of the report
ReportRow(student, status, timestamp) ==
    [matriculation_number |-> student.matriculation_number, name |-> student.name,
     status |-> status, timestamp |-> timestamp]

\* db.query(Attendance, Student).join(...).filter(Attendance.session_id == sid).all()
AttendanceRecords(sid) ==
    SelectSeq(attendance,
              LAMBDA a : /\ a.session_id = sid
                         /\ StudentByMatric(a.matriculation_number) # None)

\* db.query(CourseList, Student).join(...).filter(CourseList.course_id == c).all()
EnrolledRecords(course_id) ==
    SelectSeq(courseLists,
              LAMBDA cl : /\ cl.course_id = course_id
                          /\ StudentByMatric(cl.matriculation_number) # None)

\* s.matriculation_number not in {a.matriculation_number for a, _ in attendance_records}
IsAbsent(cl, records) ==
    \A i \in 1..Len(records) :
        records[i].matriculation_number # cl.matriculation_number

\* data: a Present line per authenticated Attendance row of the session, then an
\* Absent line per CourseList row of the course whose student has no
\* Attendance row of the session
AttendanceReport(session) ==
    LET records == AttendanceRecords(session.session_id)
        present == SelectSeq(records, LAMBDA a : a.authenticated)
        absent == SelectSeq(EnrolledRecords(session.course_id),
                            LAMBDA cl : IsAbsent(cl, records))
    IN  [i \in 1..Len(present) |->
            ReportRow(StudentByMatric(present[i].matriculation_number)[1],
                      "Present", Some(present[i].timestamp))]
        \o [i \in 1..Len(absent) |->
               ReportRow(StudentByMatric(absent[i].matriculation_number)[1],
                         "Absent", None)]

\* the checks of get_attendance_report and the lines it returns
ReportOutcome(adm, sid) ==
    LET session == SessionById(sid) IN
    IF session = None
    THEN [error |-> Some(HTTPException(404, "Session not found")), body |-> None]
    ELSE IF session[1].admin_id # adm.admin_id
    THEN [error |-> Some(HTTPException(403, "Not authorized for this session")),
          body |-> None]
    ELSE [error |-> None, body |-> Some(AttendanceReport(session[1]))]

\* GET /reports/attendance/{session_id}: reads only
GetAttendanceReport(adm, sid) ==
    LET o == ReportOutcome(adm, sid) IN
    /\ last' = Response("attendance_report", Some([session_id |-> sid]), o.error, o.body)
    /\ UNCHANGED <<now, sessions, students, courseLists, attendance, errorLogs,
                   issued, reqs>>

---------------------------------------------------------------------------
(* enroll_student *)

\* table levels: each level belongs to one department
Levels ==
    { [level_id |-> 1, department_id |-> 1],
      [level_id |-> 2, department_id |-> 2] }

\* the body of an enrollment request (StudentCreate); its photo is not read
StudentCreate(m, n, d, l, f) ==
    [matriculation_number |-> m, name |-> n, department_id |-> d,
     level_id |-> l, fingerprint_template |-> f]

\* db.query(Department).filter(Department.department_id == d).first() finds a row
ValidDepartment(d) == d \in Departments

\* (mutant) the level looked up by its id alone
ValidLevelAnyDepartment(l, d) == \E level \in Levels : level.level_id = l

\* db.query(Level).filter(Level.level_id == l, Level.department_id == d).first()
\* finds a row
ValidLevel(l, d) ==
    \E level \in Levels : level.level_id = l /\ level.department_id = d

\* (mutant) a students table without its primary key
PrimaryKeyTakenNever(m) == FALSE

\* the INSERT of db.commit() violates the primary key of students
PrimaryKeyTaken(m) ==
    \E i \in 1..Len(students) : students[i].matriculation_number = m

\* the exception db.commit() raises on a constraint violation
IntegrityError(detail) == [exception |-> "IntegrityError", detail |-> detail]

\* the checks of enroll_student, the commit, and the row stored
EnrollOutcome(adm, student) ==
    IF ~ValidDepartment(student.department_id)
       \/ ~ValidLevel(student.level_id, student.department_id)
    THEN [error |-> Some(HTTPException(400, "Invalid department or level")),
          row |-> None]
    ELSE IF student.department_id # adm.department_id
    THEN [error |-> Some(HTTPException(403, "Not authorized for this department")),
          row |-> None]
    ELSE IF PrimaryKeyTaken(student.matriculation_number)
    THEN [error |-> Some(IntegrityError("students.matriculation_number")),
          row |-> None]
    ELSE [error |-> None,
          row |-> Some(StudentRow(student.matriculation_number, student.name,
                                  student.department_id, student.level_id,
                                  student.fingerprint_template))]

\* POST /enrollment/enroll served as one unit of work
EnrollStudent(adm, student) ==
    LET o == EnrollOutcome(adm, student) IN
    /\ IF o.error # None
       THEN /\ students' = students
            /\ last' = Response("enroll_student", Some(student), o.error, None)
       ELSE /\ Len(students) < MaxStudents
            /\ students' = Append(students, o.row[1])
            /\ last' = Response("enroll_student", Some(student), None,
                                Some([message |-> "Student enrolled successfully"]))
    /\ UNCHANGED <<now, sessions, courseLists, attendance, errorLogs, issued, reqs>>

---------------------------------------------------------------------------
(* get_error_report *)

\* (mutant) the journal read without the filter on session_id
ErrorLogsOfAnySession(sid) == errorLogs

\* db.query(ErrorLog).filter(ErrorLog.session_id == session_id).all()
ErrorLogsOf(sid) == SelectSeq(errorLogs, LAMBDA log : log.session_id = sid)

\* log.matriculation_number or "Unknown": a null or empty value reads "Unknown"
MatricOrUnknown(matric) ==
    IF matric = None \/ matric[1] = "" THEN "Unknown" ELSE matric[1]

\* one line of the error report
ErrorReportRow(log) ==
    [matriculation_number |-> MatricOrUnknown(log.matriculation_number),
     error_type |-> log.error_type, details |-> log.details]

\* data: one line per ErrorLog row of the session, in the order of the query
ErrorReport(sid) ==
    LET logs == ErrorLogsOf(sid) IN
    [i \in 1..Len(logs) |-> ErrorReportRow(logs[i])]

\* the checks of get_error_report and the lines it returns
ErrorReportOutcome(adm, sid) ==
    LET session == SessionById(sid) IN
    IF session = None
    THEN [error |-> Some(HTTPException(404, "Session not found")), body |-> None]
    ELSE IF session[1].admin_id # adm.admin_id
    THEN [error |-> Some(HTTPException(403, "Not authorized for this session")),
          body |-> None]
    ELSE [error |-> None, body |-> Some(ErrorReport(sid))]

\* GET /reports/errors/{session_id}: reads only
GetErrorReport(adm, sid) ==
    LET o == ErrorReportOutcome(adm, sid) IN
    /\ last' = Response("error_report", Some([session_id |-> sid]), o.error, o.body)
    /\ UNCHANGED <<now, sessions, students, courseLists, attendance, errorLogs,
                   issued, reqs>>

---------------------------------------------------------------------------
(* enrollment_status *)

\* (mutant) the join read without the filter on the student
EnrolledCoursesOfAnyStudent(matric) ==
    SelectSeq(courseLists, LAMBDA cl : CourseById(cl.course_id) # None)

\* db.query(CourseList, Course).join(Course, CourseList.course_id == Course.course_id)
\*   .filter(CourseList.matriculation_number == student.matriculation_number).all()
EnrolledCourses(matric) ==
    SelectSeq(courseLists,
              LAMBDA cl : /\ cl.matriculation_number = matric
                          /\ CourseById(cl.course_id) # None)

\* one entry of course_info
CourseInfo(cl) ==
    [course_code |-> CourseById(cl.course_id)[1].course_code,
     course_name |-> CourseById(cl.course_id)[1].course_name,
     ca_mark |-> cl.ca_mark]

\* the body enrollment_status returns for a student
StatusBody(student) ==
    LET enrolled_courses == EnrolledCourses(student.matriculation_number) IN
    [matriculation_number |-> student.matriculation_number,
     name |-> student.name,
     department_id |-> student.department_id,
     level_id |-> student.level_id,
     enrolled_courses |-> [i \in 1..Len(enrolled_courses) |->
                              CourseInfo(enrolled_courses[i])]]

\* the check of enrollment_status and the body it returns
StatusOutcome(tpl) ==
    LET student == StudentByTemplate(tpl) IN
    IF student = None
    THEN [error |-> Some(HTTPException(404, "Student not found")), body |-> None]
    ELSE [error |-> None, body |-> Some(StatusBody(student[1]))]

\* POST /enrollment/status: reads only
EnrollmentStatus(tpl) ==
    LET o == StatusOutcome(tpl) IN
    /\ last' = Response("enrollment_status", Some([fingerprint_template |-> tpl]),
                        o.error, o.body)
    /\ UNCHANGED <<now, sessions, students, courseLists, attendance, errorLogs,
                   issued, reqs>>

---------------------------------------------------------------------------
(* create_access_token and get_current_admin (app/security.py) *)

\* timedelta(minutes=60)
ExpireMinutes == 60

\* create_access_token(data) at time t: data with "exp" set to t + 60 minutes
CreateAccessToken(data, t) == [sub |-> data.sub, exp |-> t + ExpireMinutes]

\* jwt.decode(...) at time t: the library raises ExpiredSignatureError, a
\* JWTError, once the token's exp is before the current time
Expired(token, t) == token.exp < t

\* db.query(Admin).filter(Admin.username == username).first()
AdminByUsername(username) ==
    IF \E a \in Admins : a.username = username
    THEN Some(CHOOSE a \in Admins : a.username = username)
    ELSE None

\* The db argument of get_current_admin.  The parameter is declared "db=None"
\* and every route declares the dependency as Depends(get_current_admin), so
\* no Session is ever passed: db is None, or the text of a query parameter
\* named db when the request carries one
DbArguments == {"None", "str"}

\* an exception that is neither JWTError nor HTTPException leaves the
\* dependency uncaught: the request ends in 500
AttributeError(detail) == [status_code |-> 500, detail |-> detail]

\* get_current_admin(credentials, db) at time t: the exception it leaves with,
\* or the admin it returns
CurrentAdminOutcome(token, db, t) ==
    IF Expired(token, t)
    THEN [error |-> Some(HTTPException(401, "Invalid token")), admin |-> None]
    ELSE IF token.sub = None
    THEN [error |-> Some(HTTPException(401, "Invalid token")), admin |-> None]
    ELSE IF db # "Session"
    THEN [error |-> Some(AttributeError("object has no attribute 'query'")),
          admin |-> None]
    ELSE IF AdminByUsername(token.sub[1]) = None
    THEN [error |-> Some(HTTPException(401, "Admin not found")), admin |-> None]
    ELSE [error |-> None, admin |-> AdminByUsername(token.sub[1])]

\* a token is issued: login calls create_access_token({"sub": username})
IssueToken(data) ==
    /\ last' = [op |-> "create_access_token", req |-> Some(data), status |-> 200,
                error |-> None, body |-> Some(CreateAccessToken(data, now))]
    /\ UNCHANGED <<now, sessions, students, courseLists, attendance, errorLogs,
                   issued, reqs>>

\* the token in hand: the one just issued, or the one presented last
TokenInHand ==
    IF last.op = "create_access_token" THEN last.body[1] ELSE last.req[1].credentials

\* a protected route is called with the token in hand: FastAPI runs
\* get_current_admin before the handler; "at" is the time of the call
ResolveToken(db) ==
    /\ last.op \in {"create_access_token", "get_current_admin"}
    /\ LET o == CurrentAdminOutcome(TokenInHand, db, now) IN
       last' = [op |-> "get_current_admin",
                req |-> Some([credentials |-> TokenInHand, db |-> db]),
                status |-> IF o.error = None THEN 200 ELSE o.error[1].status_code,
                error |-> o.error, body |-> o.admin, at |-> now]
    /\ UNCHANGED <<now, sessions, students, courseLists, attendance, errorLogs,
                   issued, reqs>>

\* a minute passes
TickMinute ==
    /\ now < MaxMinutes
    /\ now' = now + 1
    /\ UNCHANGED <<sessions, students, courseLists, attendance, errorLogs, last,
                   issued, reqs>>

---------------------------------------------------------------------------
(* The clock *)

Tick ==
    /\ now < MaxTime
    /\ now' = now + 1
    /\ UNCHANGED <<sessions, students, courseLists, attendance, errorLogs, last, issued, reqs>>

---------------------------------------------------------------------------
(* Reference states *)

Procs == {"p1", "p2"}

Idle == [pc |-> "idle"]

\* two students enrolled by an admin of department 1
EnrolledStudents ==
    << StudentRow("M1", "Ada", 1, 1, "F1"), StudentRow("M2", "Ben", 1, 1, "F2") >>

\* M1 is on the list of course 1 with any CA mark; M2 is on the list of course 2
UploadedCourseLists ==
    { << CourseListRow(1, "M1", mark), CourseListRow(2, "M2", Some(1)) >> :
         mark \in CaMarks }

\* two sessions opened by create_session: course 1 by admin 1, course 2 by admin 3
OpenedSessions ==
    << [session_id |-> 1, course_id |-> 1, admin_id |-> 1,
        start_time |-> 1, end_time |-> 2],
       [session_id |-> 2, course_id |-> 2, admin_id |-> 3,
        start_time |-> 0, end_time |-> 1] >>

\* session ids a request may carry: those of the table and an unknown one
SessionIds == 1..(Len(sessions) + 1)

---------------------------------------------------------------------------
(* Spec: authentication against opened sessions, one request at a time *)

Init ==
    /\ now = 0
    /\ sessions = OpenedSessions
    /\ students = EnrolledStudents
    /\ courseLists \in UploadedCourseLists
    /\ attendance = <<>>
    /\ errorLogs = <<>>
    /\ last = NoRequest
    /\ issued = <<>>
    /\ reqs = [p \in Procs |-> Idle]

Next ==
    \/ Tick
    \/ \E adm \in Admins, sid \in SessionIds, tpl \in Templates :
          Authenticate(adm, sid, tpl)

Spec == Init /\ [][Next]_vars

---------------------------------------------------------------------------
(* SpecSession: opening sessions, one request at a time *)

InitSession ==
    /\ now = 0
    /\ sessions = <<>>
    /\ students = EnrolledStudents
    /\ courseLists = <<>>
    /\ attendance = <<>>
    /\ errorLogs = <<>>
    /\ last = NoRequest
    /\ issued = <<>>
    /\ reqs = [p \in Procs |-> Idle]

NextSession ==
    \E adm \in Admins, code \in CourseCodes, st \in Times, en \in Times :
        CreateSession(adm, code, st, en)

SpecSession == InitSession /\ [][NextSession]_vars

---------------------------------------------------------------------------
(* Concurrent requests: a handler's queries and its insert are separate      *)
(* storage steps, and another request's steps may fall between them          *)

\* authenticate_student up to the existing-attendance query; a request that
\* fails, or finds the student authenticated, is finished here
AuthBegin(p, adm, sid, tpl) ==
    LET o == AuthOutcome(adm, sid, tpl) IN
    /\ reqs[p].pc = "idle"
    /\ IF o.att = None
       THEN /\ Commit(o)
            /\ last' = Response("authenticate", AuthRequest(sid, tpl), o.error, o.body)
            /\ reqs' = reqs
       ELSE /\ reqs' = [reqs EXCEPT ![p] =
                           [pc |-> "insert_attendance", req |-> AuthRequest(sid, tpl),
                            out |-> o]]
            /\ UNCHANGED <<attendance, errorLogs, last, issued>>
    /\ UNCHANGED <<now, sessions, students, courseLists>>

\* db.add(attendance); db.commit() and the return of authenticate_student
AuthInsert(p) ==
    /\ reqs[p].pc = "insert_attendance"
    /\ Len(attendance) < MaxAttendance
    /\ attendance' = Append(attendance, [reqs[p].out.att[1] EXCEPT !.timestamp = now])
    /\ issued' = Append(issued, reqs[p].out.body[1])
    /\ last' = Response("authenticate", reqs[p].req, None, reqs[p].out.body)
    /\ reqs' = [reqs EXCEPT ![p] = Idle]
    /\ UNCHANGED <<now, sessions, students, courseLists, errorLogs>>

\* create_session up to the overlap query; a rejected request is finished here
CreateSessionBegin(p, adm, code, start_time, end_time) ==
    LET o == CreateSessionOutcome(adm, code, start_time, end_time)
        req == CreateSessionRequest(code, start_time, end_time)
    IN  /\ reqs[p].pc = "idle"
        /\ IF o.error # None
           THEN /\ last' = Response("create_session", req, o.error, None)
                /\ reqs' = reqs
           ELSE /\ reqs' = [reqs EXCEPT ![p] =
                               [pc |-> "insert_session", req |-> req, out |-> o]]
                /\ last' = last
        /\ UNCHANGED <<now, sessions, students, courseLists, attendance, errorLogs, issued>>

\* db.add(db_session); db.commit() and the return of create_session
CreateSessionInsert(p) ==
    LET row == [reqs[p].out.row[1] EXCEPT !.session_id = Len(sessions) + 1] IN
    /\ reqs[p].pc = "insert_session"
    /\ Len(sessions) < MaxSessions
    /\ sessions' = Append(sessions, row)
    /\ last' = Response("create_session", reqs[p].req, None, CreateSessionBody(row))
    /\ reqs' = [reqs EXCEPT ![p] = Idle]
    /\ UNCHANGED <<now, students, courseLists, attendance, errorLogs, issued>>

\* both students hold a valid CA mark for the course of one opened session
InitAuthRace ==
    /\ now = 0
    /\ sessions = OpenedSessions
    /\ students = EnrolledStudents
    /\ courseLists = << CourseListRow(1, "M1", Some(1)), CourseListRow(2, "M2", Some(1)) >>
    /\ attendance = <<>>
    /\ errorLogs = <<>>
    /\ last = NoRequest
    /\ issued = <<>>
    /\ reqs = [p \in Procs |-> Idle]

NextAuthRace ==
    \/ Tick
    \/ \E p \in Procs, adm \in Admins, sid \in SessionIds, tpl \in Templates :
          AuthBegin(p, adm, sid, tpl)
    \/ \E p \in Procs : AuthInsert(p)

SpecAuthRace == InitAuthRace /\ [][NextAuthRace]_vars

NextSessionRace ==
    \/ \E p \in Procs, adm \in Admins, code \in CourseCodes, st \in Times, en \in Times :
          CreateSessionBegin(p, adm, code, st, en)
    \/ \E p \in Procs : CreateSessionInsert(p)

SpecSessionRace == InitSession /\ [][NextSessionRace]_vars

---------------------------------------------------------------------------
(* SpecJournal: the handlers that write to error_logs, one request at a time *)

NextJournal ==
    \/ Tick
    \/ \E adm \in Admins, sid \in SessionIds, tpl \in Templates :
          Authenticate(adm, sid, tpl)
    \/ \E sid \in SessionIds, matric \in MatriculationNumbers,
          c \in Courses, details \in DisputeDetails :
          ReportCaMarkDispute(sid, matric, c.course_id, details)

\* M1 is on the list of course 1 with a negative CA mark, M2 on the list of
\* course 2 with a valid one: every journaled failure and a success can happen
InitJournal ==
    /\ now = 0
    /\ sessions = OpenedSessions
    /\ students = EnrolledStudents
    /\ courseLists = << CourseListRow(1, "M1", Some(-1)), CourseListRow(2, "M2", Some(1)) >>
    /\ attendance = <<>>
    /\ errorLogs = <<>>
    /\ last = NoRequest
    /\ issued = <<>>
    /\ reqs = [p \in Procs |-> Idle]

SpecJournal == InitJournal /\ [][NextJournal]_vars

---------------------------------------------------------------------------
(* SpecUpload: course lists uploaded for enrolled students, one request at a time *)

\* cells of the uploaded files: matriculation numbers of the two students and
\* an unknown one; a CA mark, an empty cell and a text that is no number
MatricCells == {"M1", "M2", "MX"}

MarkCells == {"", "abc", "1"}

CsvRows == {CsvRow(m, c) : m \in MatricCells, c \in MarkCells}

\* files with every required column and up to two rows
CompleteFiles ==
    {CsvFile(RequiredColumns, rows) :
        rows \in {<<>>} \cup {<<r>> : r \in CsvRows}
                       \cup {<<r, q>> : r \in CsvRows, q \in CsvRows}}

\* files of one row that lack one required column
IncompleteFiles ==
    {CsvFile(RequiredColumns \ {col},
             <<[c \in RequiredColumns \ {col} |-> CsvRow("M1", "1")[c]]>>) :
        col \in RequiredColumns}

\* course ids an upload may name: a course of department 1 and an unknown one
UploadCourseIds == {1, 3}

InitUpload ==
    /\ now = 0
    /\ sessions = <<>>
    /\ students = EnrolledStudents
    /\ courseLists = <<>>
    /\ attendance = <<>>
    /\ errorLogs = <<>>
    /\ last = NoRequest
    /\ issued = <<>>
    /\ reqs = [p \in Procs |-> Idle]

NextUpload ==
    \E adm \in Admins, course_id \in UploadCourseIds,
       file \in CompleteFiles \cup IncompleteFiles :
        UploadCourseList(adm, course_id, file)

SpecUpload == InitUpload /\ [][NextUpload]_vars

---------------------------------------------------------------------------
(* SpecReport: course lists uploaded again, students authenticated and the     *)
(* attendance report read, while both sessions are open                        *)

\* files of one row: a student with one of two marks
ReuploadFiles ==
    {CsvFile(RequiredColumns, <<CsvRow(m, c)>>) : m \in {"M1", "M2"}, c \in {"1", "2"}}

\* the session whose course the uploads are for, and the students' templates
ReportSessionIds == {1}

ReportTemplates == {"F1", "F2"}

InitReport ==
    /\ now = 1
    /\ sessions = OpenedSessions
    /\ students = EnrolledStudents
    /\ courseLists = <<>>
    /\ attendance = <<>>
    /\ errorLogs = <<>>
    /\ last = NoRequest
    /\ issued = <<>>
    /\ reqs = [p \in Procs |-> Idle]

NextReport ==
    \/ \E adm \in Admins, course_id \in UploadCourseIds, file \in ReuploadFiles :
          UploadCourseList(adm, course_id, file)
    \/ \E adm \in Admins, sid \in ReportSessionIds, tpl \in ReportTemplates :
          Authenticate(adm, sid, tpl)
    \/ \E adm \in Admins, sid \in SessionIds : GetAttendanceReport(adm, sid)

SpecReport == InitReport /\ [][NextReport]_vars

---------------------------------------------------------------------------
(* SpecEnroll: students enrolled from an empty table, one request at a time *)

\* enrollment requests: two matriculation numbers, names and templates, the
\* departments of the table and an unknown one, the levels of the table
EnrollRequests ==
    {StudentCreate(m, n, d, l, f) :
        m \in {"M1", "M2"}, n \in {"Ada", "Ben"}, d \in Departments \cup {3},
        l \in {level.level_id : level \in Levels}, f \in {"F1", "F2"}}

InitEnroll ==
    /\ now = 0
    /\ sessions = <<>>
    /\ students = <<>>
    /\ courseLists = <<>>
    /\ attendance = <<>>
    /\ errorLogs = <<>>
    /\ last = NoRequest
    /\ issued = <<>>
    /\ reqs = [p \in Procs |-> Idle]

NextEnroll ==
    \E adm \in Admins, student \in EnrollRequests : EnrollStudent(adm, student)

SpecEnroll == InitEnroll /\ [][NextEnroll]_vars

---------------------------------------------------------------------------
(* SpecService: every handler that writes to storage, and the attendance      *)
(* report, one request at a time, from one open session and one student       *)

\* the requests of this specification: a second student to enroll, a course
\* list naming the first, sessions of the first course
ServiceEnrollRequests == {StudentCreate("M2", "Ben", 1, 1, "F2")}

ServiceFiles == {CsvFile(RequiredColumns, <<CsvRow("M1", "1")>>)}

ServiceCourseCodes == {"CSC101"}

ServiceMatriculationNumbers == {"M1"}

\* start_time and end_time of the sessions asked for: before the open session
ServiceTimes == {0}

InitService ==
    /\ now = 1
    /\ sessions = SubSeq(OpenedSessions, 1, 1)
    /\ students = SubSeq(EnrolledStudents, 1, 1)
    /\ courseLists = <<>>
    /\ attendance = <<>>
    /\ errorLogs = <<>>
    /\ last = NoRequest
    /\ issued = <<>>
    /\ reqs = [p \in Procs |-> Idle]

NextService ==
    \/ \E adm \in Admins, student \in ServiceEnrollRequests : EnrollStudent(adm, student)
    \/ \E adm \in Admins, course_id \in UploadCourseIds, file \in ServiceFiles :
          UploadCourseList(adm, course_id, file)
    \/ \E adm \in Admins, code \in ServiceCourseCodes,
          st \in ServiceTimes, en \in ServiceTimes :
          CreateSession(adm, code, st, en)
    \/ \E adm \in Admins, sid \in ReportSessionIds, tpl \in ReportTemplates :
          Authenticate(adm, sid, tpl)
    \/ \E sid \in ReportSessionIds, matric \in ServiceMatriculationNumbers,
          c \in Courses, details \in DisputeDetails :
          ReportCaMarkDispute(sid, matric, c.course_id, details)
    \/ \E adm \in Admins, sid \in ReportSessionIds : GetAttendanceReport(adm, sid)

SpecService == InitService /\ [][NextService]_vars

---------------------------------------------------------------------------
(* SpecErrorReport: failures journaled for both sessions while they are open, *)
(* and the error report read, one request at a time                           *)

InitErrorReport ==
    /\ now = 1
    /\ sessions = OpenedSessions
    /\ students = EnrolledStudents
    /\ courseLists = << CourseListRow(1, "M1", Some(-1)), CourseListRow(2, "M2", Some(1)) >>
    /\ attendance = <<>>
    /\ errorLogs = <<>>
    /\ last = NoRequest
    /\ issued = <<>>
    /\ reqs = [p \in Procs |-> Idle]

NextErrorReport ==
    \/ \E adm \in Admins, sid \in SessionIds, tpl \in Templates :
          Authenticate(adm, sid, tpl)
    \/ \E sid \in SessionIds, matric \in MatriculationNumbers,
          c \in Courses, details \in DisputeDetails :
          ReportCaMarkDispute(sid, matric, c.course_id, details)
    \/ \E adm \in Admins, sid \in SessionIds : GetErrorReport(adm, sid)

SpecErrorReport == InitErrorReport /\ [][NextErrorReport]_vars

---------------------------------------------------------------------------
(* SpecStatus: course lists of both courses uploaded for the enrolled         *)
(* students, and the enrollment status read, one request at a time            *)

\* course ids an upload may name: the course of each department
StatusCourseIds == {1, 2}

NextStatus ==
    \/ \E adm \in Admins, course_id \in StatusCourseIds, file \in ReuploadFiles :
          UploadCourseList(adm, course_id, file)
    \/ \E tpl \in Templates : EnrollmentStatus(tpl)

SpecStatus == InitUpload /\ [][NextStatus]_vars

---------------------------------------------------------------------------
(* SpecToken: tokens issued and presented to the protected routes while the   *)
(* minutes pass                                                               *)

\* the data of a token: the username of an admin, a username of no admin, or
\* no subject
TokenData ==
    {[sub |-> Some(a.username)] : a \in Admins}
        \cup {[sub |-> Some("nobody")], [sub |-> None]}

NextToken ==
    \/ TickMinute
    \/ \E data \in TokenData : IssueToken(data)
    \/ \E db \in DbArguments : ResolveToken(db)

SpecToken == InitUpload /\ [][NextToken]_vars

---------------------------------------------------------------------------
(* Properties *)

\* the request body of the last request
LastReq == last.req[1]

\* the step is authenticate served for admin adm, with the request body that the
\* response records
AuthenticateStep(adm) ==
    /\ last'.op = "authenticate"
    /\ Authenticate(adm, last'.req[1].session_id, last'.req[1].fingerprint_template)

\* the step answers an authenticate request
Answers == last'.op = "authenticate"

\* the step is create_session served for admin adm, likewise
CreateSessionStep(adm) ==
    /\ last'.op = "create_session"
    /\ CreateSession(adm, last'.req[1].course_code, last'.req[1].start_time,
                     last'.req[1].end_time)

\* the request body of the step
Req == last'.req[1]

\* the session a request names, when it exists
HasSession(sid) == sid \in 1..Len(sessions)

\* start_time <= t <= end_time
InsideWindow(t, session) == session.start_time <= t /\ t <= session.end_time

\* a request for an existing session, by its owner, inside its time window
OwnedInWindow(adm, sid) ==
    /\ HasSession(sid)
    /\ sessions[sid].admin_id = adm.admin_id
    /\ InsideWindow(now, sessions[sid])

\* the ErrorLog rows after the step are those before it and one more
OneErrorLogAdded ==
    /\ Len(errorLogs') = Len(errorLogs) + 1
    /\ SubSeq(errorLogs', 1, Len(errorLogs)) = errorLogs

AddedErrorLog == errorLogs'[Len(errorLogs')]

\* no two authenticated Attendance rows share (session_id, matriculation_number)
SingleAttendance ==
    \A i, j \in 1..Len(attendance) :
        (/\ i # j
         /\ attendance[i].session_id = attendance[j].session_id
         /\ attendance[i].matriculation_number = attendance[j].matriculation_number
         /\ attendance[i].authenticated)
        => ~attendance[j].authenticated

\* the closed intervals [start_time, end_time] of a and b have a common point
Intersect(a, b) ==
    \E t \in 0..(MaxEndpoint + 1) :
        /\ a.start_time <= t /\ t <= a.end_time
        /\ b.start_time <= t /\ t <= b.end_time

\* no two stored sessions of one course have intersecting intervals
DisjointSessions ==
    \A i, j \in 1..Len(sessions) :
        (i # j /\ sessions[i].course_id = sessions[j].course_id)
        => ~Intersect(sessions[i], sessions[j])

AllIdle == \A p \in Procs : reqs[p].pc = "idle"

\* C1: whatever authenticate calls are served one at a time, storage never holds
\* two authenticated Attendance rows for one (session_id, matriculation_number)
C1_SingleAttendance == SingleAttendance

\* a second call for an authenticated student was served and found the row
C1_Witness ==
    /\ last.op = "authenticate"
    /\ last.body # None
    /\ last.body[1].message = "Student already authenticated"
    /\ \E i \in 1..Len(attendance) :
          /\ attendance[i].session_id = LastReq.session_id
          /\ attendance[i].matriculation_number = last.body[1].matriculation_number
          /\ attendance[i].authenticated

\* C2: once two concurrent authenticate requests have finished, at most one
\* authenticated Attendance row exists for a (session, student) pair
C2_RaceSingleAttendance == AllIdle => SingleAttendance

\* C3: no two stored sessions of a course have intersecting closed intervals, and
\* a request whose interval has a point in common with a stored session of its
\* course (its start_time equal to that session's end_time, say) is rejected
\* and persists nothing
C3_NoIntersectingSessions ==
    /\ []DisjointSessions
    /\ [][\A adm \in Admins :
            \/ (sessions' = sessions /\ last'.status # 200)
            \/ ~(/\ last'.op = "create_session"
                 /\ \E c \in Courses, i \in 1..Len(sessions) :
                       /\ c.course_code = Req.course_code
                       /\ sessions[i].course_id = c.course_id
                       /\ Intersect(sessions[i], Req)
                 /\ CreateSessionStep(adm))]_vars

\* a request starting exactly where the only stored session ends was rejected
C3_Witness ==
    /\ last.op = "create_session"
    /\ last.error = Some(HTTPException(400,
                         "Session overlaps with existing session for this course"))
    /\ Len(sessions) = 1
    /\ sessions[1].start_time < sessions[1].end_time
    /\ LastReq.start_time = sessions[1].end_time

\* C4: once two concurrent create_session requests on one course with
\* intersecting intervals have finished, at most one of the two is stored
C4_RaceDisjointSessions == AllIdle => DisjointSessions

\* C5: an authenticate call by the owner of the session made before start_time or
\* after end_time raises the outside-window 403 and adds neither an Attendance
\* row nor an ErrorLog row, whatever the template
C5_OutsideWindowRejected ==
    [][\A adm \in Admins :
          (/\ Answers
           /\ HasSession(Req.session_id)
           /\ sessions[Req.session_id].admin_id = adm.admin_id
           /\ ~InsideWindow(now, sessions[Req.session_id])
           /\ AuthenticateStep(adm))
          => /\ last'.error = Some(HTTPException(403,
                                   "Authentication outside session time window"))
             /\ last'.status # 200
             /\ attendance' = attendance
             /\ errorLogs' = errorLogs]_vars

\* the template of an enrolled student with a valid CA mark was presented after
\* the session's end_time and rejected
C5_Witness ==
    /\ last.op = "authenticate"
    /\ last.error = Some(HTTPException(403, "Authentication outside session time window"))
    /\ now > sessions[LastReq.session_id].end_time
    /\ LET student == StudentByTemplate(LastReq.fingerprint_template) IN
          /\ student # None
          /\ LET course_list == CourseListOf(sessions[LastReq.session_id].course_id,
                                             student[1].matriculation_number) IN
                course_list # None /\ ~InvalidCaMark(course_list[1].ca_mark)
    /\ attendance = <<>>
    /\ errorLogs = <<>>

---------------------------------------------------------------------------
(* The order of the checks of authenticate_student *)

\* the student a template resolves to, and that student's enrollment in the
\* course of session sid
Matched(tpl) == StudentByTemplate(tpl)[1]

Enrollment(sid, tpl) ==
    CourseListOf(sessions[sid].course_id, Matched(tpl).matriculation_number)

\* check k of the request (adm, sid, tpl) can be evaluated and fails:
\* 1 session exists, 2 session owned by the admin, 3 time window,
\* 4 fingerprint match, 5 enrollment, 6 CA mark
CheckFails(k, adm, sid, tpl) ==
    CASE k = 1 -> ~HasSession(sid)
      [] k = 2 -> HasSession(sid) /\ sessions[sid].admin_id # adm.admin_id
      [] k = 3 -> HasSession(sid) /\ ~InsideWindow(now, sessions[sid])
      [] k = 4 -> \A i \in 1..Len(students) : students[i].fingerprint_template # tpl
      [] k = 5 -> /\ HasSession(sid)
                  /\ StudentByTemplate(tpl) # None
                  /\ Enrollment(sid, tpl) = None
      [] k = 6 -> /\ HasSession(sid)
                  /\ StudentByTemplate(tpl) # None
                  /\ Enrollment(sid, tpl) # None
                  /\ LET mark == Enrollment(sid, tpl)[1].ca_mark IN
                        mark = None \/ mark[1] < 0

\* the error of a failing check and the type of the journal entry it writes
ErrorOfCheck(k) ==
    CASE k = 1 -> HTTPException(404, "Session not found")
      [] k = 2 -> HTTPException(403, "Not authorized for this session")
      [] k = 3 -> HTTPException(403, "Authentication outside session time window")
      [] k = 4 -> HTTPException(404, "Student not found")
      [] k = 5 -> HTTPException(403, "Student not enrolled in this course")
      [] k = 6 -> HTTPException(403, "Invalid CA mark")

JournalOfCheck(k) ==
    CASE k \in {1, 2, 3} -> "none"
      [] k = 4 -> "AUTH_FAILED"
      [] k = 5 -> "NOT_ENROLLED"
      [] k = 6 -> "INVALID_CA_MARK"

FailingChecks(adm, sid, tpl) == {k \in 1..6 : CheckFails(k, adm, sid, tpl)}

Earliest(ks) == CHOOSE k \in ks : \A m \in ks : k <= m

\* an authenticated Attendance row of (sid, matric) is stored
Attended(sid, matric) ==
    \E i \in 1..Len(attendance) :
        /\ attendance[i].session_id = sid
        /\ attendance[i].matriculation_number = matric
        /\ attendance[i].authenticated

\* the same of the table after the step
AttendedAfter(sid, matric) ==
    \E i \in 1..Len(attendance') :
        /\ attendance'[i].session_id = sid
        /\ attendance'[i].matriculation_number = matric
        /\ attendance'[i].authenticated

\* C6: the outcome of authenticate is that of the earliest failing check in the
\* order session, owner, time window, fingerprint, enrollment, CA mark: its
\* error, its journal entry if it writes one, and nothing of a later check; a
\* request that fails none is answered from the existing Attendance row or
\* commits one
C6_ChecksInOrder ==
    [][\A adm \in Admins :
          AuthenticateStep(adm) =>
            \A failing \in {FailingChecks(adm, Req.session_id, Req.fingerprint_template)} :
                IF failing # {}
                THEN \A k \in {Earliest(failing)} :
                     /\ last'.error = Some(ErrorOfCheck(k))
                     /\ attendance' = attendance
                     /\ IF JournalOfCheck(k) = "none"
                        THEN errorLogs' = errorLogs
                        ELSE /\ OneErrorLogAdded
                             /\ AddedErrorLog.error_type = JournalOfCheck(k)
                ELSE /\ last'.error = None
                     /\ errorLogs' = errorLogs
                     /\ IF Attended(Req.session_id,
                                    Matched(Req.fingerprint_template).matriculation_number)
                        THEN attendance' = attendance
                        ELSE Len(attendance') = Len(attendance) + 1]_vars

\* a request failing the owner check, the time-window check and the fingerprint
\* match at once was answered with the owner error and journaled nothing
C6_Witness ==
    /\ last.op = "authenticate"
    /\ HasSession(LastReq.session_id)
    /\ ~InsideWindow(now, sessions[LastReq.session_id])
    /\ StudentByTemplate(LastReq.fingerprint_template) = None
    /\ last.error = Some(HTTPException(403, "Not authorized for this session"))
    /\ errorLogs = <<>>
    /\ attendance = <<>>

\* C7: an in-window authenticate call by the owner with a template no student
\* has adds exactly one ErrorLog row (that session_id, matriculation_number
\* null, AUTH_FAILED), adds no Attendance row, and fails
C7_MismatchJournaled ==
    [][\A adm \in Admins :
          (/\ Answers
           /\ OwnedInWindow(adm, Req.session_id)
           /\ \A i \in 1..Len(students) :
                 students[i].fingerprint_template # Req.fingerprint_template
           /\ AuthenticateStep(adm))
          => /\ OneErrorLogAdded
             /\ AddedErrorLog.session_id = Req.session_id
             /\ AddedErrorLog.matriculation_number = None
             /\ AddedErrorLog.error_type = "AUTH_FAILED"
             /\ attendance' = attendance
             /\ last'.error # None
             /\ last'.status # 200]_vars

\* two failed attempts with an unknown template left two AUTH_FAILED rows
C7_Witness ==
    /\ last.op = "authenticate"
    /\ last.error = Some(HTTPException(404, "Student not found"))
    /\ StudentByTemplate(LastReq.fingerprint_template) = None
    /\ Len(errorLogs) = 2
    /\ \A i \in 1..2 :
          /\ errorLogs[i].error_type = "AUTH_FAILED"
          /\ errorLogs[i].matriculation_number = None
          /\ errorLogs[i].session_id = LastReq.session_id
    /\ attendance = <<>>

\* C8: an in-window authenticate call by the owner whose template resolves to a
\* student with no CourseList row for the session's course adds exactly one
\* ErrorLog row (that student's matriculation number, NOT_ENROLLED), adds no
\* Attendance row, and fails
C8_NotEnrolledJournaled ==
    [][\A adm \in Admins :
          (/\ Answers
           /\ OwnedInWindow(adm, Req.session_id)
           /\ StudentByTemplate(Req.fingerprint_template) # None
           /\ \A i \in 1..Len(courseLists) :
                 ~(/\ courseLists[i].course_id = sessions[Req.session_id].course_id
                   /\ courseLists[i].matriculation_number =
                         Matched(Req.fingerprint_template).matriculation_number)
           /\ AuthenticateStep(adm))
          => /\ OneErrorLogAdded
             /\ AddedErrorLog.session_id = Req.session_id
             /\ AddedErrorLog.matriculation_number =
                   Some(Matched(Req.fingerprint_template).matriculation_number)
             /\ AddedErrorLog.error_type = "NOT_ENROLLED"
             /\ attendance' = attendance
             /\ last'.error # None
             /\ last'.status # 200]_vars

\* a student on the list of another course only was turned away and journaled
C8_Witness ==
    /\ last.op = "authenticate"
    /\ last.error = Some(HTTPException(403, "Student not enrolled in this course"))
    /\ StudentByTemplate(LastReq.fingerprint_template) # None
    /\ Enrollment(LastReq.session_id, LastReq.fingerprint_template) = None
    /\ Len(errorLogs) = 1
    /\ errorLogs[1].error_type = "NOT_ENROLLED"
    /\ errorLogs[1].matriculation_number =
          Some(Matched(LastReq.fingerprint_template).matriculation_number)
    /\ \E i \in 1..Len(courseLists) :
          courseLists[i].matriculation_number =
              Matched(LastReq.fingerprint_template).matriculation_number
    /\ attendance = <<>>

\* C9: an in-window authenticate call by the owner for an enrolled student whose
\* ca_mark is null or negative adds exactly one INVALID_CA_MARK ErrorLog row for
\* that student and no Attendance row; with a ca_mark of 0 the call passes the
\* check: it raises nothing and journals nothing
C9_InvalidCaMarkJournaled ==
    [][\A adm \in Admins :
          (/\ Answers
           /\ OwnedInWindow(adm, Req.session_id)
           /\ StudentByTemplate(Req.fingerprint_template) # None
           /\ Enrollment(Req.session_id, Req.fingerprint_template) # None
           /\ AuthenticateStep(adm))
          => LET mark == Enrollment(Req.session_id, Req.fingerprint_template)[1].ca_mark
             IN  /\ (mark = None \/ mark[1] < 0)
                    => /\ OneErrorLogAdded
                       /\ AddedErrorLog.session_id = Req.session_id
                       /\ AddedErrorLog.matriculation_number =
                             Some(Matched(Req.fingerprint_template).matriculation_number)
                       /\ AddedErrorLog.error_type = "INVALID_CA_MARK"
                       /\ attendance' = attendance
                       /\ last'.error # None
                 /\ mark = Some(0)
                    => /\ errorLogs' = errorLogs
                       /\ last'.error = None
                       /\ AttendedAfter(Req.session_id,
                             Matched(Req.fingerprint_template).matriculation_number)]_vars

\* an enrolled student with a null or negative CA mark was turned away twice
C9_Witness ==
    /\ last.op = "authenticate"
    /\ last.error = Some(HTTPException(403, "Invalid CA mark"))
    /\ InvalidCaMark(Enrollment(LastReq.session_id, LastReq.fingerprint_template)[1].ca_mark)
    /\ Len(errorLogs) = 2
    /\ \A i \in 1..2 :
          /\ errorLogs[i].error_type = "INVALID_CA_MARK"
          /\ errorLogs[i].matriculation_number =
                Some(Matched(LastReq.fingerprint_template).matriculation_number)
    /\ attendance = <<>>

\* the index of the first Attendance row of (sid, matric)
FirstAttendance(sid, matric) ==
    CHOOSE i \in 1..Len(attendance) :
        /\ attendance[i].session_id = sid
        /\ attendance[i].matriculation_number = matric
        /\ \A j \in 1..(i - 1) :
              ~(attendance[j].session_id = sid /\ attendance[j].matriculation_number = matric)

\* C10: when a student is authenticated for a session, a further in-window call
\* by the owner for that student adds no Attendance row and no ErrorLog row and
\* returns the matriculation_number, name and ca_mark that the first successful
\* call returned
C10_ReauthenticationSamePayload ==
    [][\A adm \in Admins :
          (/\ Answers
           /\ OwnedInWindow(adm, Req.session_id)
           /\ StudentByTemplate(Req.fingerprint_template) # None
           /\ Attended(Req.session_id,
                       Matched(Req.fingerprint_template).matriculation_number)
           /\ AuthenticateStep(adm))
          => LET first == issued[FirstAttendance(Req.session_id,
                              Matched(Req.fingerprint_template).matriculation_number)]
             IN  /\ attendance' = attendance
                 /\ errorLogs' = errorLogs
                 /\ last'.error = None
                 /\ last'.body # None
                 /\ last'.body[1].matriculation_number = first.matriculation_number
                 /\ last'.body[1].name = first.name
                 /\ last'.body[1].ca_mark = first.ca_mark]_vars

\* a student authenticated at start_time was answered again later in the window
C10_Witness ==
    /\ last.op = "authenticate"
    /\ last.body # None
    /\ last.body[1].message = "Student already authenticated"
    /\ Len(attendance) = 1
    /\ attendance[1].session_id = LastReq.session_id
    /\ attendance[1].matriculation_number = last.body[1].matriculation_number
    /\ attendance[1].timestamp < now
    /\ issued[1].ca_mark = last.body[1].ca_mark
    /\ issued[1].message = "Student authenticated successfully"
    /\ errorLogs = <<>>

---------------------------------------------------------------------------
(* The successful call *)

\* the request (adm, sid, tpl) passes every check of authenticate_student
PassesEveryCheck(adm, sid, tpl) ==
    /\ OwnedInWindow(adm, sid)
    /\ StudentByTemplate(tpl) # None
    /\ Enrollment(sid, tpl) # None
    /\ Enrollment(sid, tpl)[1].ca_mark # None
    /\ Enrollment(sid, tpl)[1].ca_mark[1] >= 0
    /\ ~Attended(sid, Matched(tpl).matriculation_number)

\* the Attendance rows after the step are those before it and one more
OneAttendanceAdded ==
    /\ Len(attendance') = Len(attendance) + 1
    /\ SubSeq(attendance', 1, Len(attendance)) = attendance

AddedAttendance == attendance'[Len(attendance')]

\* C11: an authenticate call that passes every check (session exists, owned by
\* the admin, inside the window, template of a student enrolled with a valid CA
\* mark, not yet authenticated) adds exactly one Attendance row for that session
\* and student with authenticated = true, adds no ErrorLog row, and succeeds
C11_SuccessRecordsAttendance ==
    [][\A adm \in Admins :
          (/\ Answers
           /\ PassesEveryCheck(adm, Req.session_id, Req.fingerprint_template)
           /\ AuthenticateStep(adm))
          => /\ OneAttendanceAdded
             /\ AddedAttendance.session_id = Req.session_id
             /\ AddedAttendance.matriculation_number =
                   Matched(Req.fingerprint_template).matriculation_number
             /\ AddedAttendance.authenticated = TRUE
             /\ errorLogs' = errorLogs
             /\ last'.error = None]_vars

\* two students were authenticated for their sessions, each recorded once, and
\* nothing was journaled
C11_Witness ==
    /\ last.op = "authenticate"
    /\ last.body # None
    /\ last.body[1].message = "Student authenticated successfully"
    /\ Len(attendance) = 2
    /\ attendance[1].matriculation_number # attendance[2].matriculation_number
    /\ attendance[2].session_id = LastReq.session_id
    /\ attendance[2].matriculation_number = last.body[1].matriculation_number
    /\ \A i \in 1..2 : attendance[i].authenticated
    /\ errorLogs = <<>>

\* the course of a stored session
CourseOf(session) == CHOOSE c \in Courses : c.course_id = session.course_id

\* C12: the body returned by a successful authenticate call carries the five
\* fields matriculation_number, name, ca_mark, photo and course_name, those of
\* the matched student and of the session's course
C12_SuccessPayloadFiveFields ==
    (/\ last.op = "authenticate"
     /\ last.body # None
     /\ last.body[1].message = "Student authenticated successfully")
    => /\ {"matriculation_number", "name", "ca_mark", "photo", "course_name"}
             \subseteq DOMAIN last.body[1]
       /\ last.body[1].matriculation_number =
             Matched(LastReq.fingerprint_template).matriculation_number
       /\ last.body[1].name = Matched(LastReq.fingerprint_template).name
       /\ last.body[1].ca_mark =
             Enrollment(LastReq.session_id, LastReq.fingerprint_template)[1].ca_mark
       /\ last.body[1].photo = Matched(LastReq.fingerprint_template).photo
       /\ last.body[1].course_name = CourseOf(sessions[LastReq.session_id]).course_name

\* C13: the time-window check compares the stored start_time and end_time with
\* the current instant in West-Africa Time (UTC+1): with the clock counting
\* hours of UTC, a call by the owner at instant t passes the window check
\* exactly when start_time <= t + 1 <= end_time
C13_WindowInWestAfricaTime ==
    [][\A adm \in Admins :
          (/\ Answers
           /\ HasSession(Req.session_id)
           /\ sessions[Req.session_id].admin_id = adm.admin_id
           /\ AuthenticateStep(adm))
          => (last'.error # Some(HTTPException(403,
                                 "Authentication outside session time window"))
              <=> InsideWindow(now + 1, sessions[Req.session_id]))]_vars

\* the failure categories of authenticate and the status each is surfaced with
NotFoundDetails == {"Session not found", "Student not found"}

ForbiddenDetails ==
    {"Not authorized for this session", "Authentication outside session time window",
     "Student not enrolled in this course", "Invalid CA mark"}

\* C14: the status the caller of authenticate receives tells the failure
\* category: 404 (NotFound) for a missing session or an unmatched fingerprint,
\* 403 (Forbidden) for a wrong owner, a call outside the window, a student not
\* enrolled and an invalid CA mark, so failures of the two categories never
\* come with the same status
C14_StatusTellsCategory ==
    (last.op = "authenticate" /\ last.error # None)
    => /\ last.error[1].detail \in NotFoundDetails => last.status = 404
       /\ last.error[1].detail \in ForbiddenDetails => last.status = 403

\* C15: an authenticate call for a session id that does not exist, or for a
\* session whose admin_id is not the acting admin's, fails and adds neither an
\* ErrorLog row nor an Attendance row
C15_MissingOrForeignSessionUnjournaled ==
    [][\A adm \in Admins :
          (/\ Answers
           /\ \/ ~HasSession(Req.session_id)
              \/ sessions[Req.session_id].admin_id # adm.admin_id
           /\ AuthenticateStep(adm))
          => /\ last'.error # None
             /\ last'.status # 200
             /\ last'.body = None
             /\ errorLogs' = errorLogs
             /\ attendance' = attendance]_vars

\* a request naming no stored session, with the template of an enrolled student,
\* was turned away inside the window of every session and left storage as it was
C15_Witness ==
    /\ last.op = "authenticate"
    /\ ~HasSession(LastReq.session_id)
    /\ StudentByTemplate(LastReq.fingerprint_template) # None
    /\ last.error = Some(HTTPException(404, "Session not found"))
    /\ \A i \in 1..Len(sessions) : InsideWindow(now, sessions[i])
    /\ errorLogs = <<>>
    /\ attendance = <<>>

\* the errors of authenticate that come with a journal entry, and the entry's type
JournaledErrors ==
    [error_type \in {"AUTH_FAILED", "NOT_ENROLLED", "INVALID_CA_MARK"} |->
        CASE error_type = "AUTH_FAILED" -> HTTPException(404, "Student not found")
          [] error_type = "NOT_ENROLLED" ->
                HTTPException(403, "Student not enrolled in this course")
          [] error_type = "INVALID_CA_MARK" -> HTTPException(403, "Invalid CA mark")]

\* C16: when authenticate fails with a fingerprint mismatch, a non-enrollment or
\* an invalid CA mark, the journal entry of that failure is in storage once the
\* request is over, the rollback of its exception handler included
C16_JournalSurvivesRollback ==
    [][\A adm \in Admins, error_type \in DOMAIN JournaledErrors :
          (/\ Answers
           /\ last'.error = Some(JournaledErrors[error_type])
           /\ AuthenticateStep(adm))
          => /\ last'.status # 200
             /\ OneErrorLogAdded
             /\ AddedErrorLog.error_type = error_type
             /\ AddedErrorLog.session_id = Req.session_id]_vars

\* two failed requests of different kinds were answered with an error and both
\* journal entries are in storage
C16_Witness ==
    /\ last.op = "authenticate"
    /\ last.status # 200
    /\ Len(errorLogs) = 2
    /\ errorLogs[1].error_type # errorLogs[2].error_type
    /\ last.error = Some(JournaledErrors[errorLogs[2].error_type])
    /\ errorLogs[2].session_id = LastReq.session_id

---------------------------------------------------------------------------
(* The checks of create_session *)

\* C18: every stored ExamSession has start_time < end_time: a request with
\* start_time >= end_time is never persisted
C18_StartBeforeEnd ==
    \A i \in 1..Len(sessions) : sessions[i].start_time < sessions[i].end_time

\* C19: create_session fails and stores nothing when no course has the
\* request's course_code, whoever the admin is (the course is looked up before
\* any department is compared), and fails and stores nothing when the course
\* belongs to another department than the acting admin's
C19_CourseThenDepartment ==
    [][\A adm \in Admins :
          (/\ last'.op = "create_session"
           /\ CreateSessionStep(adm))
          => LET known == {c \in Courses : c.course_code = Req.course_code} IN
             /\ known = {}
                => /\ last'.error = Some(HTTPException(404, "Course not found"))
                   /\ last'.status # 200
                   /\ sessions' = sessions
             /\ (\E c \in known : c.department_id # adm.department_id)
                => /\ last'.error =
                         Some(HTTPException(403, "Not authorized for this department"))
                   /\ last'.status # 200
                   /\ sessions' = sessions]_vars

\* an admin of another department asked for a free interval of a course that
\* has a stored session and was refused
C19_Witness ==
    /\ last.op = "create_session"
    /\ last.error = Some(HTTPException(403, "Not authorized for this department"))
    /\ Len(sessions) = 1
    /\ CourseOf(sessions[1]).course_code = LastReq.course_code
    /\ ~Intersect(sessions[1], LastReq)

---------------------------------------------------------------------------
(* The journal *)

\* C20: an ErrorLog row once written is never modified and never removed,
\* whatever requests follow: after every step the journal is the journal before
\* the step, possibly with rows added at its end
C20_JournalAppendOnly ==
    [][/\ Len(errorLogs') >= Len(errorLogs)
       /\ SubSeq(errorLogs', 1, Len(errorLogs)) = errorLogs]_vars

\* a dispute and a failed authentication were journaled, and a later successful
\* authentication found and left both rows
C20_Witness ==
    /\ Len(errorLogs) = 2
    /\ errorLogs[1].error_type = "CA_MARK_ISSUE"
    /\ errorLogs[2].error_type = "AUTH_FAILED"
    /\ last.op = "authenticate"
    /\ last.error = None
    /\ Len(attendance) = 1

---------------------------------------------------------------------------
(* Course-list uploads *)

\* the step is upload_course_list served for admin adm, with the request that
\* the response records
UploadStep(adm) ==
    /\ last'.op = "upload_course_list"
    /\ UploadCourseList(adm, last'.req[1].course_id, last'.req[1].file)

\* the upload names a course of the admin's department
OwnCourse(adm, course_id) ==
    \E c \in Courses : c.course_id = course_id /\ c.department_id = adm.department_id

\* a student with matriculation number m is stored
IsStudent(m) == \E i \in 1..Len(students) : students[i].matriculation_number = m

\* the CourseList rows the step added
AddedCourseLists == SubSeq(courseLists', Len(courseLists) + 1, Len(courseLists'))

\* the rows of the file up to row i that name a stored student
StudentRowsUpTo(rows, i) == {j \in 1..i : IsStudent(rows[j].matriculation_number)}

\* C22: whatever course lists are uploaded, the same one twice or one naming a
\* student twice included, storage holds at most one CourseList row per
\* (course_id, matriculation_number)
C22_OneCourseListPerStudent ==
    \A i, j \in 1..Len(courseLists) :
        (/\ courseLists[i].course_id = courseLists[j].course_id
         /\ courseLists[i].matriculation_number = courseLists[j].matriculation_number)
        => i = j

\* C24: an upload for a course of the admin's department with every required
\* column succeeds whatever students its rows name, and adds one CourseList row
\* of that course for each file row naming a stored student and none for the
\* other rows
C24_RowsOfStoredStudentsOnly ==
    [][\A adm \in Admins :
          (/\ last'.op = "upload_course_list"
           /\ OwnCourse(adm, Req.course_id)
           /\ RequiredColumns \subseteq Req.file.columns
           /\ UploadStep(adm))
          => /\ last'.error = None
             /\ last'.status = 200
             /\ SubSeq(courseLists', 1, Len(courseLists)) = courseLists
             /\ \A i \in 1..Len(AddedCourseLists) :
                   AddedCourseLists[i].course_id = Req.course_id
             /\ \A m \in MatricCells :
                   Cardinality({i \in 1..Len(AddedCourseLists) :
                                   AddedCourseLists[i].matriculation_number = m})
                   = IF IsStudent(m)
                     THEN Cardinality({i \in 1..Len(Req.file.rows) :
                                          Req.file.rows[i].matriculation_number = m})
                     ELSE 0]_vars

\* a file naming an unknown student and then a stored one was accepted and
\* stored one row
C24_Witness ==
    /\ last.op = "upload_course_list"
    /\ last.error = None
    /\ Len(LastReq.file.rows) = 2
    /\ ~IsStudent(LastReq.file.rows[1].matriculation_number)
    /\ IsStudent(LastReq.file.rows[2].matriculation_number)
    /\ Len(courseLists) = 1
    /\ courseLists[1].matriculation_number = LastReq.file.rows[2].matriculation_number

\* C25: in an accepted upload, a row of a stored student whose ca_mark cell is
\* empty or no number is stored with ca_mark null, and the rows around it are
\* stored as well: the k-th row of a stored student gives the k-th added row
C25_UnparsableMarkStoredNull ==
    [][\A adm \in Admins :
          (/\ last'.op = "upload_course_list"
           /\ OwnCourse(adm, Req.course_id)
           /\ RequiredColumns \subseteq Req.file.columns
           /\ UploadStep(adm))
          => \A i \in 1..Len(Req.file.rows) :
                IsStudent(Req.file.rows[i].matriculation_number)
                => LET k == Cardinality(StudentRowsUpTo(Req.file.rows, i)) IN
                   /\ k <= Len(AddedCourseLists)
                   /\ AddedCourseLists[k].matriculation_number =
                         Req.file.rows[i].matriculation_number
                   /\ Req.file.rows[i].ca_mark \in {"", "abc"}
                      => AddedCourseLists[k].ca_mark = None
                   /\ Req.file.rows[i].ca_mark = "1"
                      => AddedCourseLists[k].ca_mark = Some(1)]_vars

\* a file whose first row has a text for a mark and whose second row has a
\* mark was stored whole: null, then the mark
C25_Witness ==
    /\ last.op = "upload_course_list"
    /\ last.error = None
    /\ Len(LastReq.file.rows) = 2
    /\ LastReq.file.rows[1].ca_mark = "abc"
    /\ LastReq.file.rows[2].ca_mark = "1"
    /\ Len(courseLists) = 2
    /\ courseLists[1].ca_mark = None
    /\ courseLists[2].ca_mark = Some(1)

\* C26: an upload whose file lacks one of the columns matriculation_number,
\* name, ca_mark fails and leaves the CourseList rows as they were
C26_MissingColumnRejected ==
    [][\A adm \in Admins :
          (/\ last'.op = "upload_course_list"
           /\ ~(RequiredColumns \subseteq Req.file.columns)
           /\ UploadStep(adm))
          => /\ last'.error # None
             /\ last'.status # 200
             /\ courseLists' = courseLists]_vars

\* a file without the name column was refused for a course of the admin's
\* department, and the rows of an earlier upload are still there
C26_Witness ==
    /\ last.op = "upload_course_list"
    /\ last.error = Some(HTTPException(400, "CSV missing required columns"))
    /\ "name" \notin LastReq.file.columns
    /\ Len(LastReq.file.rows) > 0
    /\ Len(courseLists) > 0

\* the CourseList rows of (course_id, matric), in the order of their upload
CourseListsOf(course_id, matric) ==
    SelectSeq(courseLists,
              LAMBDA cl : cl.course_id = course_id /\ cl.matriculation_number = matric)

\* C23: when a course list is uploaded again with another ca_mark for a student
\* of the course, a later authenticate call for that student returns the mark
\* uploaded last
C23_ReuploadOverwritesMark ==
    (/\ last.op = "authenticate"
     /\ last.body # None)
    => LET uploaded == CourseListsOf(sessions[LastReq.session_id].course_id,
                                     last.body[1].matriculation_number)
       IN  last.body[1].ca_mark = uploaded[Len(uploaded)].ca_mark

---------------------------------------------------------------------------
(* The attendance report *)

\* the lines of the last report that name the student matric
ReportLinesOf(matric) ==
    {i \in 1..Len(last.body[1]) : last.body[1][i].matriculation_number = matric}

\* C30: the attendance report of a session has exactly one line for every
\* student with a CourseList row of the session's course, Present when the
\* student has an authenticated Attendance row of the session and Absent
\* otherwise, and no line for anybody else
C30_ReportListsEnrolledOnce ==
    (/\ last.op = "attendance_report"
     /\ last.error = None)
    => \A k \in 1..Len(students) :
          LET matric == students[k].matriculation_number
              session == sessions[LastReq.session_id]
          IN  IF CourseListsOf(session.course_id, matric) # <<>>
              THEN /\ Cardinality(ReportLinesOf(matric)) = 1
                   /\ \A i \in ReportLinesOf(matric) :
                         last.body[1][i].status =
                            IF Attended(session.session_id, matric)
                            THEN "Present" ELSE "Absent"
              ELSE ReportLinesOf(matric) = {}

---------------------------------------------------------------------------
(* Enrollment *)

\* the step is enroll_student served for admin adm, with the request that the
\* response records
EnrollStep(adm) ==
    /\ last'.op = "enroll_student"
    /\ EnrollStudent(adm, last'.req[1])

\* the level l is a level of department d
LevelOfDepartment(l, d) ==
    \E level \in Levels : level.level_id = l /\ level.department_id = d

\* C27: enroll_student fails and stores nothing when the department does not
\* exist or the level is not one of that department, and when the department is
\* not the acting admin's; so a Student is stored only with the department of
\* the admin who enrolls it, and every stored Student has a level of its own
\* department
C27_EnrollWithinDepartment ==
    /\ [](\A i \in 1..Len(students) :
             LevelOfDepartment(students[i].level_id, students[i].department_id))
    /\ [][\A adm \in Admins :
            (/\ last'.op = "enroll_student"
             /\ EnrollStep(adm))
            => /\ (\/ Req.department_id \notin Departments
                   \/ ~LevelOfDepartment(Req.level_id, Req.department_id)
                   \/ Req.department_id # adm.department_id)
                  => /\ last'.error # None
                     /\ last'.status # 200
                     /\ students' = students
               /\ students' # students
                  => /\ Len(students') = Len(students) + 1
                     /\ students'[Len(students')].department_id = adm.department_id]_vars

\* an admin of department 1 was refused a student of department 2 with a level
\* of department 2, after enrolling a student of its own department
C27_Witness ==
    /\ last.op = "enroll_student"
    /\ last.error = Some(HTTPException(403, "Not authorized for this department"))
    /\ LevelOfDepartment(LastReq.level_id, LastReq.department_id)
    /\ Len(students) = 1
    /\ students[1].department_id # LastReq.department_id

\* C28: enroll_student with the matriculation_number of a stored Student fails,
\* and the table of students is left as it was: the stored record keeps its
\* name, department, level and template, and no second record is added
C28_DuplicateEnrollmentRejected ==
    [][\A adm \in Admins :
          (/\ last'.op = "enroll_student"
           /\ \E i \in 1..Len(students) :
                 students[i].matriculation_number = Req.matriculation_number
           /\ EnrollStep(adm))
          => /\ last'.error # None
             /\ last'.status # 200
             /\ students' = students]_vars

\* a request of the student's own department, passing every check, with the
\* matriculation number of a stored student and another name and template, was
\* refused by the primary key
C28_Witness ==
    /\ last.op = "enroll_student"
    /\ last.error = Some(IntegrityError("students.matriculation_number"))
    /\ Len(students) = 1
    /\ students[1].matriculation_number = LastReq.matriculation_number
    /\ students[1].name # LastReq.name
    /\ students[1].fingerprint_template # LastReq.fingerprint_template

\* C29: whatever enroll_student calls are served, no two stored Students have
\* the same fingerprint_template
C29_UniqueTemplates ==
    \A i, j \in 1..Len(students) :
        students[i].fingerprint_template = students[j].fingerprint_template => i = j

---------------------------------------------------------------------------
(* The writers of attendance and error_logs *)

\* no Attendance row and no ErrorLog row is modified or removed by the step
NothingDeleted ==
    /\ Len(attendance') >= Len(attendance)
    /\ SubSeq(attendance', 1, Len(attendance)) = attendance
    /\ Len(errorLogs') >= Len(errorLogs)
    /\ SubSeq(errorLogs', 1, Len(errorLogs)) = errorLogs

\* C21 as claimed: Attendance rows and ErrorLog rows are added by authenticate
\* only, and no operation deletes one
C21_OnlyAuthenticateWrites ==
    [][/\ (attendance' # attendance \/ errorLogs' # errorLogs)
          => last'.op = "authenticate"
       /\ NothingDeleted]_vars

\* C21 as amended: Attendance rows are added by authenticate only; ErrorLog rows
\* are added by authenticate (AUTH_FAILED, NOT_ENROLLED, INVALID_CA_MARK) and by
\* report_ca_mark_dispute (CA_MARK_ISSUE) only; no operation deletes one
C21_AuthenticateAndDisputeWrite ==
    [][/\ attendance' # attendance => last'.op = "authenticate"
       /\ errorLogs' # errorLogs
          => /\ last'.op \in {"authenticate", "dispute"}
             /\ OneErrorLogAdded
             /\ AddedErrorLog.error_type = "CA_MARK_ISSUE" <=> last'.op = "dispute"
       /\ NothingDeleted]_vars

\* a failed authentication and a dispute were journaled, a student was
\* authenticated, and then a second student was enrolled and a second session
\* opened: the rows are as they were
C21_Witness ==
    /\ last.op = "create_session"
    /\ last.error = None
    /\ Len(students) = 2
    /\ Len(sessions) = 2
    /\ Len(attendance) = 1
    /\ Len(errorLogs) = 2
    /\ \E i, j \in 1..2 :
          /\ errorLogs[i].error_type = "CA_MARK_ISSUE"
          /\ errorLogs[j].error_type = "NOT_ENROLLED"

---------------------------------------------------------------------------
(* The error report *)

\* a step of get_error_report(session_id, admin) for the admin adm
ErrorReportStep(adm) ==
    /\ last'.op = "error_report"
    /\ GetErrorReport(adm, last'.req[1].session_id)

\* the positions of the journal's entries of session sid
JournalOf(sid) == {i \in 1..Len(errorLogs) : errorLogs[i].session_id = sid}

\* line is the report's rendering of the ErrorLog row log
LineOf(line, log) ==
    /\ line.error_type = log.error_type
    /\ line.details = log.details
    /\ line.matriculation_number =
          (IF log.matriculation_number = None THEN "Unknown"
           ELSE log.matriculation_number[1])

\* C31: the error report of a session is produced only for the admin who owns
\* the session: any other admin, and any admin asking for a missing session,
\* gets an error and no entries; the owner gets one line per ErrorLog entry
\* whose session_id is that session and no line of any other entry.
C31_ErrorReportOfOwnedSession ==
    [][\A adm \in Admins :
         ErrorReportStep(adm) =>
            LET sid == last'.req[1].session_id
                session == SessionById(sid)
            IN  IF session # None /\ session[1].admin_id = adm.admin_id
                THEN /\ last'.error = None
                     /\ last'.body # None
                     /\ Len(last'.body[1]) = Cardinality(JournalOf(sid))
                     /\ \A i \in JournalOf(sid) :
                           \E k \in 1..Len(last'.body[1]) :
                              LineOf(last'.body[1][k], errorLogs[i])
                     /\ \A k \in 1..Len(last'.body[1]) :
                           \E i \in JournalOf(sid) :
                              LineOf(last'.body[1][k], errorLogs[i])
                ELSE /\ last'.error # None
                     /\ last'.body = None]_vars

\* the owner of one session reads its report of one line while the journal
\* also holds an entry of the other session
C31_Witness ==
    /\ last.op = "error_report"
    /\ last.error = None
    /\ Len(last.body[1]) = 1
    /\ Len(errorLogs) = 2
    /\ errorLogs[1].session_id # errorLogs[2].session_id

---------------------------------------------------------------------------
(* The enrollment status *)

\* the positions of the CourseList rows of the student matric
CourseListRowsOf(matric) ==
    {i \in 1..Len(courseLists) : courseLists[i].matriculation_number = matric}

\* info is the (course_code, course_name, ca_mark) tuple of the CourseList row cl
TupleOf(info, cl) ==
    /\ info.ca_mark = cl.ca_mark
    /\ \E c \in Courses : /\ c.course_id = cl.course_id
                          /\ info.course_code = c.course_code
                          /\ info.course_name = c.course_name

\* C32: enrollment_status fails when no Student has the presented fingerprint
\* template; otherwise it returns the profile of a student with that template
\* and one (course_code, course_name, ca_mark) tuple for every CourseList
\* record of that student, in the order of the records, and no tuple of a
\* record of any other student.
C32_StatusOfPresentedTemplate ==
    last.op = "enrollment_status" =>
        LET tpl == last.req[1].fingerprint_template IN
        IF \A i \in 1..Len(students) : students[i].fingerprint_template # tpl
        THEN last.error # None /\ last.body = None
        ELSE /\ last.error = None
             /\ last.body # None
             /\ \E i \in 1..Len(students) :
                   /\ students[i].fingerprint_template = tpl
                   /\ last.body[1].matriculation_number = students[i].matriculation_number
                   /\ last.body[1].name = students[i].name
                   /\ last.body[1].department_id = students[i].department_id
                   /\ last.body[1].level_id = students[i].level_id
             /\ LET rows == CourseListRowsOf(last.body[1].matriculation_number)
                    tuples == last.body[1].enrolled_courses
                IN  /\ Len(tuples) = Cardinality(rows)
                    /\ \A k \in 1..Len(tuples) :
                          \E i \in rows :
                             /\ TupleOf(tuples[k], courseLists[i])
                             /\ Cardinality({j \in rows : j <= i}) = k

\* a student reads the one tuple of their own record while the lists also hold
\* a record of the other student, for the other course
C32_Witness ==
    /\ last.op = "enrollment_status"
    /\ last.error = None
    /\ Len(last.body[1].enrolled_courses) = 1
    /\ Len(courseLists) = 2
    /\ courseLists[1].matriculation_number # courseLists[2].matriculation_number
    /\ courseLists[1].course_id # courseLists[2].course_id

---------------------------------------------------------------------------
(* Tokens *)

\* the time at which the presented token was issued
IssuedAt(token) == token.exp - ExpireMinutes

\* C33: a token issued by create_access_token for the username of an existing
\* admin is resolved by get_current_admin to that admin at any time less than
\* 60 minutes after issue, and is rejected as unauthorized (401) from 60
\* minutes after issue onward; a token whose subject is missing or names no
\* admin is rejected as unauthorized.
C33_TokenResolvesForSixtyMinutes ==
    last.op = "get_current_admin" =>
        LET token == last.req[1].credentials IN
        IF /\ token.sub # None
           /\ \E a \in Admins : a.username = token.sub[1]
           /\ last.at < IssuedAt(token) + ExpireMinutes
        THEN /\ last.error = None
             /\ last.body # None
             /\ last.body[1].username = token.sub[1]
        ELSE /\ last.status = 401
             /\ last.body = None

---------------------------------------------------------------------------
(* The stored rows *)

\* the student matric has a CourseList row of course course_id with a CA mark
\* that is present and not negative
ValidEnrollment(course_id, matric) ==
    \E j \in 1..Len(courseLists) :
        /\ courseLists[j].course_id = course_id
        /\ courseLists[j].matriculation_number = matric
        /\ courseLists[j].ca_mark # None
        /\ courseLists[j].ca_mark[1] >= 0

\* C34: in every reachable state, every Attendance record has
\* authenticated = true, refers to an existing session, and refers to a student
\* who has a CourseList record for that session's course with a non-null,
\* non-negative ca_mark.
C34_AttendanceOfValidEnrollment ==
    \A i \in 1..Len(attendance) :
        /\ attendance[i].authenticated
        /\ HasSession(attendance[i].session_id)
        /\ ValidEnrollment(sessions[attendance[i].session_id].course_id,
                           attendance[i].matriculation_number)

\* both students are recorded, one of them with a CA mark of 0
C34_Witness ==
    /\ Len(attendance) = 2
    /\ \E i \in 1..2 :
          CourseListOf(sessions[attendance[i].session_id].course_id,
                       attendance[i].matriculation_number)[1].ca_mark = Some(0)

\* C35: authenticate admits an attempt made exactly at the session's start_time
\* and exactly at its end_time: for the session's owner the time-window check
\* rejects exactly when now < start_time or now > end_time, and an attempt at
\* either bound that passes the other checks is recorded with that time.
C35_WindowBoundsAdmitted ==
    [][\A adm \in Admins :
          (/\ Answers
           /\ HasSession(Req.session_id)
           /\ sessions[Req.session_id].admin_id = adm.admin_id
           /\ AuthenticateStep(adm))
          => LET session == sessions[Req.session_id] IN
             /\ (last'.error = Some(HTTPException(403,
                                    "Authentication outside session time window")))
                   <=> (now < session.start_time \/ now > session.end_time)
             /\ (/\ now \in {session.start_time, session.end_time}
                 /\ PassesEveryCheck(adm, Req.session_id, Req.fingerprint_template))
                   => /\ last'.error = None
                      /\ OneAttendanceAdded
                      /\ AddedAttendance.timestamp = now]_vars

\* one student was recorded exactly at the start_time of a session and the
\* other exactly at the end_time of a session, each session lasting some time
C35_Witness ==
    /\ Len(attendance) = 2
    /\ \E i, j \in 1..2 :
          /\ attendance[i].timestamp = sessions[attendance[i].session_id].start_time
          /\ attendance[j].timestamp = sessions[attendance[j].session_id].end_time
          /\ sessions[attendance[i].session_id].start_time
                < sessions[attendance[i].session_id].end_time
          /\ sessions[attendance[j].session_id].start_time
                < sessions[attendance[j].session_id].end_time

\* C37: in every reachable state, every ErrorLog entry refers to an existing
\* session, and its matriculation_number is null exactly when its error_type
\* is AUTH_FAILED; every non-null matriculation_number in the journal is that
\* of an existing Student.
C37_JournalWellFormed ==
    \A i \in 1..Len(errorLogs) :
        /\ HasSession(errorLogs[i].session_id)
        /\ (errorLogs[i].matriculation_number = None)
              <=> (errorLogs[i].error_type = "AUTH_FAILED")
        /\ errorLogs[i].matriculation_number # None
              => IsStudent(errorLogs[i].matriculation_number[1])

\* the journal holds a fingerprint mismatch, without a student, and a dispute
\* naming a student
C37_Witness ==
    /\ Len(errorLogs) = 2
    /\ errorLogs[1].error_type = "AUTH_FAILED"
    /\ errorLogs[1].matriculation_number = None
    /\ errorLogs[2].error_type = "CA_MARK_ISSUE"
    /\ errorLogs[2].matriculation_number # None

\* C38: authenticate, whatever its outcome, leaves the sessions, the students
\* and the CourseList records unchanged (courses and admins are reference data
\* no handler of the model writes); the only storage it can change is one added
\* Attendance record or one added ErrorLog entry, never both in the same call.
C38_AuthenticateFrame ==
    [][(last'.op = "authenticate" /\ now' = now)
          => /\ sessions' = sessions
             /\ students' = students
             /\ courseLists' = courseLists
             /\ \/ attendance' = attendance /\ errorLogs' = errorLogs
                \/ OneAttendanceAdded /\ errorLogs' = errorLogs
                \/ OneErrorLogAdded /\ attendance' = attendance]_vars

\* a call was journaled after another one had been recorded: each changed one
\* table
C38_Witness ==
    /\ last.op = "authenticate"
    /\ last.error # None
    /\ Len(errorLogs) = 1
    /\ Len(attendance) = 1
    /\ errorLogs[1].session_id # attendance[1].session_id

\* the course a create_session request names is one of the admin's department
\* and no stored session of that course intersects the requested interval
FreeForAdmin(adm, req) ==
    \E c \in Courses :
        /\ c.course_code = req.course_code
        /\ c.department_id = adm.department_id
        /\ \A i \in 1..Len(sessions) :
              sessions[i].course_id = c.course_id => ~Intersect(sessions[i], req)

\* the step stored one more session: the requested interval of the requested
\* course, owned by adm
SessionPersistedFor(adm, req) ==
    /\ last'.error = None
    /\ last'.status = 200
    /\ Len(sessions') = Len(sessions) + 1
    /\ SubSeq(sessions', 1, Len(sessions)) = sessions
    /\ LET row == sessions'[Len(sessions')] IN
          /\ row.admin_id = adm.admin_id
          /\ CourseOf(row).course_code = req.course_code
          /\ row.start_time = req.start_time
          /\ row.end_time = req.end_time

\* C36: create_session succeeds and persists a session owned by the acting
\* admin whenever the course exists, belongs to the admin's department and no
\* stored session of that same course intersects the requested interval, so
\* that stored sessions of other courses never cause a conflict; a stored
\* session of the same course that intersects the interval causes one even
\* when another admin owns it.
C36_FreeIntervalAccepted ==
    [][\A adm \in Admins :
          (/\ last'.op = "create_session"
           /\ CreateSessionStep(adm))
          => /\ FreeForAdmin(adm, Req) => SessionPersistedFor(adm, Req)
             /\ (\E c \in Courses, i \in 1..Len(sessions) :
                    /\ c.course_code = Req.course_code
                    /\ c.department_id = adm.department_id
                    /\ sessions[i].course_id = c.course_id
                    /\ sessions[i].admin_id # adm.admin_id
                    /\ Intersect(sessions[i], Req))
                => (last'.error # None /\ sessions' = sessions)]_vars

===========================================================================
